---------------------------- MODULE Spec2Model ----------------------------
(***************************************************************************)
(* Verification model of the ESP32 IoT firmware: the Wi-Fi Manager         *)
(* (main/wifi_manager.c), its event handler, the application orchestrator  *)
(* (app_main) and the command task that switches networks.                 *)
(*                                                                         *)
(* Tasks: the main task (app_main), the event-loop task that runs          *)
(* wifi_event_handler, background reconnect tasks and change-network       *)
(* command tasks.  The ESP-IDF Wi-Fi driver is the environment: its API    *)
(* calls are operators on the driver state `drv`, its events are queued    *)
(* in `evq` and delivered in FIFO order by the event task.                 *)
(*                                                                         *)
(* A FreeRTOS event-group wait is modelled exactly: a waiter registers its *)
(* mask; xEventGroupSetBits wakes every registered waiter whose mask       *)
(* intersects the bits, hands it the bit value and clears its mask bits    *)
(* (clear-on-exit); a waiter that is still registered may time out.        *)
(*                                                                         *)
(* Time is abstracted by a few facts   of the code.  The event-loop task has *)
(* the highest priority, so application tasks run only while it has no     *)
(* event to handle or sleeps inside a handler: print_status(.., true)      *)
(* writes the LCD and sleeps MIN_LCD_SHOW_TIME.  Code between two blocking *)
(* calls runs in no time: while some task can take such a step, nothing    *)
(* that takes time happens (no sleep or scan ends, no timeout expires, the *)
(* driver and the user produce nothing).  A wait of `ms` milliseconds can  *)
(* expire only when the event loop is quiet (the awaited event is not on   *)
(* its way) or when the LCD sleeps still ahead of the event loop add up to *)
(* `ms`.  A delay of a task that is at least as long as an LCD sleep and   *)
(* began during a sleep of the event task ends after that sleep.           *)
(***************************************************************************)
EXTENDS Naturals, Integers, Sequences, FiniteSets, TLC

(* ------------------------------ bounds -------------------------------- *)
\* longest credential list held by the store in the model, and the number of
\* networks that exist
MaxStored == 2
\* spontaneous link drops the environment may cause
MaxDrops == 1
\* triple-press gestures the user may make
MaxPresses == 1
\* change-network commands that may arrive
MaxCmds == 1
\* reconnect tasks that can exist at the same time in the model
MaxRcTasks == 1
\* calls a client of the public interface makes in the interface model
MaxConfigured == 2
MaxTail == 2
MaxMqCalls == 4
MaxMqEvents == 3
MaxStoreOps == 3
MaxFaults == 1
MaxFlips == 2
MaxCalls == 2

(* -------------------------- program constants ------------------------- *)
WFM_MAX_CREDS == 15
WFM_SSID_MAX == 32
WFM_PASS_MAX == 64
\* sizes of ssid and password in wifi_ap_config_t
AP_SSID_SIZE == 32
AP_PASS_SIZE == 64
\* config.h
WIFI_AP_SSID == "esp32_setup"
WIFI_AP_PASSWORD == "setup1234"
WFM_SCAN_MAX == 32
MAX_RECONNECT_ATTEMPTS == 5
WIFI_CONNECT_TIMEOUT_MS == 30000
WIFI_STOP_TIMEOUT_MS == 10000
WIFI_DISCONNECT_TIMEOUT_MS == 5000
MIN_LCD_SHOW_TIME == 1500
MQM_MAX_TOPIC == 128
MQM_MAX_PAYLOAD == 256
MQM_START_DEFAULT_MS == 15000
MQM_STOP_DEFAULT_MS == 3000
MQM_DEINIT_STOP_MS == 2000

NetNames == <<"netA", "netB", "netC", "netD">>
SSIDs == {NetNames[k] : k \in 1..MaxStored}
\* passwords a command may carry: a good one and one the driver rejects as
\* invalid (ESP_ERR_WIFI_PASSWORD)
InvalidPass == "short"
Passwords == {"pw", InvalidPass}
NoStr == ""

\* wfm_bits_e
WFM_BIT_STARTED == "STARTED"
WFM_BIT_CONNECTED == "CONNECTED"
WFM_BIT_FAIL == "FAIL"
WFM_BIT_STOPPED == "STOPPED"
WFM_BIT_SCANDONE == "SCANDONE"

\* esp_err_t values that the code distinguishes
ESP_OK == "ESP_OK"
ESP_FAIL == "ESP_FAIL"
ESP_ERR == "ESP_ERR_DRIVER"

\* Disconnect reasons of the driver (wifi_err_reason_t) used by the model: a
\* network in range rejects the station, an absent one is not found.
FailReason(ssid, air) == IF ssid \in air THEN "AUTH_FAIL" ELSE "NO_AP_FOUND"
REASON_ASSOC_LEAVE == "ASSOC_LEAVE"

VARIABLES
    nvs,        \* persisted credential list (survives restart)
    wfm,        \* the wfm_t context
    eg,         \* bits set in wfm->eg
    wmask,      \* per task: mask of a registered xEventGroupWaitBits, {} if none
    bits,       \* per task: value returned by its last wait
    drv,        \* Wi-Fi driver state
    evq,        \* default event loop queue
    evt,        \* position of the event task inside wifi_event_handler
    ahead,      \* the long delays under way when the event task fell asleep
    pc,         \* per task: current position
    stack,      \* per task: return positions of the calls in progress
    loc,        \* per task: local variables
    app,        \* app_main state: init_success, button flags, web server, command layer
    env,        \* remaining budgets of the environment
    hist,       \* history variables used to state the properties
    mqm,        \* the mqm_t context
    mq,         \* the esp-mqtt client, its task and the caller of the MQTT manager
    raw,        \* records handed to the scan list builder, and whether it ran
    store       \* the last call of the credential store and the calls left

vars == <<nvs, wfm, eg, wmask, bits, drv, evq, evt, ahead, pc, stack, loc, app, env, hist,
          mqm, mq, raw, store>>
\* the Wi-Fi manager and the application do not touch these
aux == <<mqm, mq, raw, store>>
\* the variables of the Wi-Fi manager and of the application
wifi == <<nvs, wfm, eg, wmask, bits, drv, evq, evt, ahead, pc, stack, loc, app, env, hist>>

(* ------------------------------- tasks -------------------------------- *)
MainTask == <<"main", 0>>
RcTasks == {<<"rc", n>> : n \in 1..MaxRcTasks}
CnTasks == {<<"cn", n>> : n \in 1..MaxCmds}
\* the task of the esp-mqtt client: it runs mqm_event_core and, inside it, the
\* topic handlers; "off" is the task outside a handler
MqttTask == <<"mqtt", 0>>
Tasks == {MainTask, MqttTask} \cup RcTasks \cup CnTasks


(* ------------------------- small helper operators --------------------- *)
Last(s) == s[Len(s)]

\* the string of n characters c
RECURSIVE Rep(_, _)
Rep(c, n) == IF n = 0 THEN ""
             ELSE IF n % 2 = 0 THEN LET half == Rep(c, n \div 2) IN half \o half
             ELSE Rep(c, n - 1) \o c
\* the first n bytes of s, all of s when it is shorter: what strlcpy and a
\* bounded memcpy leave in a field of n + 1 bytes
Cut(s, n) == IF Len(s) < n THEN s ELSE SubSeq(s, 1, n)

Cred(s, p) == [ssid |-> s, pass |-> p]

\* the lists the model boots with: none, one, two stored networks
BootLists == {[k \in 1..n |-> Cred(NetNames[k], "pw")] : n \in 0..MaxStored}

(* ------------------------------ the driver ---------------------------- *)
(* State of the ESP-IDF Wi-Fi driver (external collaborator):              *)
(*   st    deinit | stopped (initialised, radio off) | started             *)
(*   mode  STA | AP (esp_wifi_set_mode)                                    *)
(*   link  idle | connecting | connected (station link)                    *)
(*   ssid, pass   station configuration (esp_wifi_set_config)              *)
(*   ap    access-point configuration (esp_wifi_set_config(WIFI_IF_AP))    *)
(*   att   history tag: which piece of code applied the configuration      *)
(*   lssid the network the link in progress was begun with                 *)
(*   latt  history tag: the configuration the link in progress was begun   *)
(*         with                                                            *)
NoAtt == [by |-> "none", idx |-> 0]
Att(by, idx) == [by |-> by, idx |-> idx]

DrvInit == [st |-> "deinit", mode |-> "STA", link |-> "idle",
            ssid |-> NoStr, pass |-> NoStr, att |-> NoAtt,
            lssid |-> NoStr, latt |-> NoAtt, ap |-> [ssid |-> NoStr, pass |-> NoStr]]

\* the station link goes down
Idle(d) == [d EXCEPT !.link = "idle", !.lssid = NoStr, !.latt = NoAtt]

\* events of the default loop that wifi_event_handler receives
\* (att and man are history tags: the attempt an event belongs to, and whether
\* a manually initiated operation was in progress when it was raised)
EvStaStart == [id |-> "STA_START", reason |-> NoStr, att |-> NoAtt, man |-> FALSE]
EvStaStop == [id |-> "STA_STOP", reason |-> NoStr, att |-> NoAtt, man |-> FALSE]
EvScanDone == [id |-> "SCAN_DONE", reason |-> NoStr, att |-> NoAtt, man |-> FALSE]
EvDisc(reason, att) ==
    [id |-> "STA_DISCONNECTED", reason |-> reason, att |-> att, man |-> FALSE]
EvGotIp(att) == [id |-> "GOT_IP", reason |-> NoStr, att |-> att, man |-> FALSE]

\* positions inside wfm_change_network, wfm_full_driver_stop and wfm_start_ap
ManualLabels == {"cnw_entry", "cnw_apply", "cnw_wait1", "cnw_wait2", "cnw_rc_ret",
                 "fs_entry", "fs_wait", "fs_shown", "ap_entry", "ap_wait",
                 "ap_shown"}
\* some task is inside a manually initiated operation
ManualOp ==
    \E t \in Tasks : \/ pc[t] \in ManualLabels
                     \/ \E k \in 1..Len(stack[t]) : stack[t][k] \in ManualLabels
\* esp_event_post of the events evs
Post(q, evs) ==
    IF env.mute THEN q
    ELSE q \o [k \in 1..Len(evs) |->
                 IF evs[k].id = "STA_DISCONNECTED" THEN [evs[k] EXCEPT !.man = ManualOp]
                 ELSE evs[k]]

\* result of a driver call: new driver state, events posted, success
Res(d, ev, ok) == [d |-> d, ev |-> ev, ok |-> ok]

\* events posted when the station link is torn down by the program.  A link
\* that is connected posts STA_DISCONNECTED (documented); for a link that is
\* still connecting the driver may or may not post it (nd chooses).
TeardownEvents(d, nd) ==
    IF d.link = "connected" \/ (d.link = "connecting" /\ nd)
    THEN <<EvDisc(REASON_ASSOC_LEAVE, Att("teardown", 0))>>
    ELSE <<>>

\* choices the driver has when a call meets a link that is still connecting
NdChoices(d) == IF d.link = "connecting" THEN BOOLEAN ELSE {FALSE}

esp_wifi_init(d) ==
    IF d.st = "deinit"
    THEN Res([Idle(d) EXCEPT !.st = "stopped", !.mode = "STA"], <<>>, TRUE)
    ELSE Res(d, <<>>, TRUE)

esp_wifi_deinit(d) ==
    IF d.st = "stopped"
    THEN Res([Idle(d) EXCEPT !.st = "deinit"], <<>>, TRUE)
    ELSE Res(d, <<>>, FALSE)

esp_wifi_set_mode(d, m) ==
    IF d.st = "deinit" THEN Res(d, <<>>, FALSE)
    ELSE IF d.st = "started" /\ d.mode # m
         THEN IF m = "STA"
              THEN Res([Idle(d) EXCEPT !.mode = m], <<EvStaStart>>, TRUE)
              ELSE Res([Idle(d) EXCEPT !.mode = m],
                       TeardownEvents(d, FALSE) \o <<EvStaStop>>, TRUE)
         ELSE Res([d EXCEPT !.mode = m], <<>>, TRUE)

esp_wifi_start(d) ==
    IF d.st = "deinit" THEN Res(d, <<>>, FALSE)
    ELSE IF d.st = "started" THEN Res(d, <<>>, TRUE)
    ELSE Res([Idle(d) EXCEPT !.st = "started"],
             IF d.mode = "STA" THEN <<EvStaStart>> ELSE <<>>, TRUE)

esp_wifi_stop(d, nd) ==
    IF d.st = "deinit" THEN Res(d, <<>>, FALSE)
    ELSE IF d.st = "stopped" THEN Res(d, <<>>, TRUE)
    ELSE Res([Idle(d) EXCEPT !.st = "stopped"],
             IF d.mode = "STA" THEN TeardownEvents(d, nd) \o <<EvStaStop>> ELSE <<>>,
             TRUE)

esp_wifi_disconnect(d, nd) ==
    IF d.st # "started" \/ d.mode # "STA" THEN Res(d, <<>>, FALSE)
    ELSE Res(Idle(d), TeardownEvents(d, nd), TRUE)

\* esp_wifi_get_config(WIFI_IF_STA): needs an initialised driver
esp_wifi_get_config(d) == Res(d, <<>>, d.st # "deinit")

\* esp_wifi_set_config(WIFI_IF_STA): needs an initialised driver in station
\* mode and a valid password; while the station is connecting the driver may
\* refuse (nd = TRUE).
esp_wifi_set_config(d, s, p, att, nd) ==
    IF d.st = "deinit" \/ d.mode # "STA" \/ p = InvalidPass
       \/ (d.link = "connecting" /\ nd)
    THEN Res(d, <<>>, FALSE)
    ELSE Res([d EXCEPT !.ssid = s, !.pass = p, !.att = att], <<>>, TRUE)

\* esp_wifi_connect: needs a started station; while the station is connecting
\* the driver may refuse (nd = TRUE) or accept and carry on with the attempt in
\* progress; on a connected station it changes nothing.
esp_wifi_connect(d, nd) ==
    IF d.st # "started" \/ d.mode # "STA" \/ (d.link = "connecting" /\ nd)
    THEN Res(d, <<>>, FALSE)
    ELSE IF d.link = "connected" THEN Res(d, <<>>, TRUE)
    ELSE IF d.link = "connecting" THEN Res(d, <<>>, TRUE)
    ELSE Res([d EXCEPT !.link = "connecting", !.lssid = d.ssid, !.latt = d.att],
             <<>>, TRUE)

\* esp_wifi_scan_start(block = true): refused unless the station is started
\* and not in the middle of connecting (ESP_ERR_WIFI_STATE).
ScanAllowed(d) == d.st = "started" /\ d.mode = "STA" /\ d.link # "connecting"

(* ---------------------------- event group ----------------------------- *)
EgState(e, wm, bt) == [eg |-> e, wmask |-> wm, bits |-> bt]

\* xEventGroupSetBits(wfm->eg, B)
EgSet(s, B) ==
    LET newEg == s.eg \cup B
        woken == {t \in Tasks : s.wmask[t] # {} /\ s.wmask[t] \cap newEg # {}}
    IN EgState(newEg \ UNION {s.wmask[t] : t \in woken},
               [t \in Tasks |-> IF t \in woken THEN {} ELSE s.wmask[t]],
               [t \in Tasks |-> IF t \in woken THEN newEg ELSE s.bits[t]])

\* xEventGroupClearBits(wfm->eg, B)
EgClear(s, B) == [s EXCEPT !.eg = s.eg \ B]

\* entry of xEventGroupWaitBits(wfm->eg, mask, pdTRUE, pdFALSE, timeout) by task t
EgWait(s, t, mask) ==
    IF s.eg \cap mask # {}
    THEN EgState(s.eg \ mask, [s.wmask EXCEPT ![t] = {}], [s.bits EXCEPT ![t] = s.eg])
    ELSE EgState(s.eg, [s.wmask EXCEPT ![t] = mask], s.bits)

EgNow == EgState(eg, wmask, bits)

\* the bits a wait of task t returns when the task resumes: those handed over
\* by the wake-up, or on a timeout the current value (no bit of the mask set)
WaitResult(t) == IF wmask[t] = {} THEN bits[t] ELSE eg

\* handlers that sleep on the LCD: STA_DISCONNECTED and GOT_IP always,
\* STA_START when connect_on_start is set
Sleeps(e) ==
    \/ e.id \in {"STA_DISCONNECTED", "GOT_IP"}
    \/ e.id = "STA_START" /\ wfm.connect_on_start
\* LCD sleeps the event loop still has ahead of it
Backlog ==
    (IF evt # "idle" THEN 1 ELSE 0) + Cardinality({k \in 1..Len(evq) : Sleeps(evq[k])})
\* the event loop has nothing to handle
Quiet == evq = <<>> /\ evt = "idle"
\* an application task gets the processor
CanRun == evq = <<>> \/ evt # "idle"
\* positions where a task is inside xEventGroupWaitBits
WaitLabels == {"ss_wait_started", "sd_wait", "st_wait", "fc_wait", "fc_stopwait",
               "ap_wait", "sa_wait", "fs_wait", "rcn_wait", "cnw_wait1", "cnw_wait2"}
\* positions a task leaves only after time has passed: a scan, vTaskDelay, an
\* LCD sleep, the start of MQTT or of the web server, the idle main loop
TimedLabels == {"ss_scanning", "rc_delay", "rcn_round", "rcn_scanfail", "rcn_failed",
                "m_loop", "m_fs_ret", "m_ap_ret", "m_fc_ret", "cn_start", "cn_ret",
                "m_restart", "m_tp_ret", "cn_poll_ok", "cn_poll_fail",
                "fs_shown", "ap_shown", "sa_shown",
                "api_ret", "scan_shown", "ota_show", "ota_download", "lcd_show", "cn_null"}
\* task t can take a step that needs no time
Instant(t) ==
    \/ pc[t] \notin (WaitLabels \cup TimedLabels \cup {"off"})
    \/ pc[t] \in WaitLabels /\ wmask[t] = {}
\* time passes only when neither the event loop nor a task can go on at once
TimePasses ==
    /\ ~(evt = "idle" /\ evq # <<>>)
    /\ \A t \in Tasks : ~Instant(t)
\* the wait of task t with a timeout of ms milliseconds is over: the task was
\* woken, or the timeout has expired
WaitOver(t, ms) ==
    \/ wmask[t] = {}
    \/ TimePasses /\ (Quiet \/ Backlog * MIN_LCD_SHOW_TIME >= ms)
\* timed positions that take at least as long as an LCD sleep: a scan, an LCD
\* sleep of the task itself, the start of MQTT
LongLabels == {"ss_scanning", "rcn_round", "rcn_scanfail", "rcn_failed", "fs_shown",
               "ap_shown", "sa_shown", "m_fc_ret", "cn_start", "cn_ret",
               "scan_shown", "ota_show", "ota_download", "lcd_show", "cn_null"}
\* task t is at position l and runs; a long delay that began while the event
\* task was asleep ends after that sleep
At(t, l) ==
    /\ CanRun
    /\ pc[t] = l
    /\ l \in TimedLabels => TimePasses
    /\ l \in LongLabels => evt = "idle" \/ <<t, l>> \in ahead
\* state of the event group after task t left its wait
EgLeft(t) == EgState(eg, [wmask EXCEPT ![t] = {}], [bits EXCEPT ![t] = {}])


(* ------------------------- the wfm_t context -------------------------- *)
\* wfm_mode_e / wfm_disc_reason_e
WFM_MODE_NONE == "NONE"
WFM_MODE_STA == "STA"
WFM_MODE_AP == "AP"
WFM_DISC_NONE == "DISC_NONE"
WFM_DISC_WRONG_PASSWORD == "DISC_WRONG_PASSWORD"
WFM_DISC_NO_AP == "DISC_NO_AP"
WFM_DISC_OTHER == "DISC_OTHER"

\* memset(wfm, 0, sizeof(*wfm)); inited tells that wfm_init created the event
\* group and registered wifi_event_handler
WfmZero == [mode |-> WFM_MODE_NONE, last_disc |-> WFM_DISC_NONE,
            info |-> Cred(NoStr, NoStr), scan |-> <<>>, saved |-> <<>>,
            connected |-> FALSE, started |-> FALSE,
            sta_netif |-> FALSE, ap_netif |-> FALSE,
            auto_reconnect |-> FALSE, connect_on_start |-> FALSE,
            manual_stop |-> FALSE, inited |-> FALSE,
            cfg |-> [max_reconnect_attempts |-> 0]]

\* the wfm_config_t argument of wfm_init: NULL or a configuration
NoCfg == [null |-> TRUE, max_reconnect_attempts |-> 0]
Cfg(n) == [null |-> FALSE, max_reconnect_attempts |-> n]
WFM_DEFAULT_CFG == [max_reconnect_attempts |-> MAX_RECONNECT_ATTEMPTS]

\* wfm_init(&wfm, &saved_creds, cfg, &wifi_cbs)
wfm_init(saved, cfg) ==
    [WfmZero EXCEPT !.saved = SubSeq(saved, 1, IF Len(saved) > WFM_MAX_CREDS
                                                THEN WFM_MAX_CREDS ELSE Len(saved)),
                    !.inited = TRUE,
                    !.cfg = IF cfg.null THEN WFM_DEFAULT_CFG
                            ELSE [max_reconnect_attempts |-> cfg.max_reconnect_attempts]]

\* the switch without the case WIFI_REASON_ASSOC_EXPIRE
DiscReason_short(reason) ==
    CASE reason \in {"AUTH_FAIL", "AUTH_EXPIRE", "4WAY_HANDSHAKE_TIMEOUT"}
           -> WFM_DISC_WRONG_PASSWORD
      [] reason = "NO_AP_FOUND" -> WFM_DISC_NO_AP
      [] OTHER -> WFM_DISC_OTHER

\* the switch of wifi_event_handler on d->reason
DiscReason(reason) ==
    CASE reason \in {"AUTH_FAIL", "AUTH_EXPIRE", "4WAY_HANDSHAKE_TIMEOUT", "ASSOC_EXPIRE"}
           -> WFM_DISC_WRONG_PASSWORD
      [] reason = "NO_AP_FOUND" -> WFM_DISC_NO_AP
      [] OTHER -> WFM_DISC_OTHER

\* is_ssid_available(wfm, ssid): strcmp against every entry of the last scan
is_ssid_available(w, ssid) ==
    \E k \in 1..Len(w.scan) : w.scan[k].ssid = ssid

\* The loop of wfm_scan_sync that builds the unique list from raw records:
\* records with an empty name are skipped, a known name keeps the larger rssi,
\* a new name is appended while fewer than WFM_SCAN_MAX entries are held.
RECURSIVE BuildScan(_, _)
BuildScan(rec, acc) ==
    IF rec = <<>> \/ Len(acc) >= WFM_SCAN_MAX THEN acc
    ELSE LET r == Head(rec)
             found == {k \in 1..Len(acc) : acc[k].ssid = r.ssid}
         IN IF r.ssid = NoStr THEN BuildScan(Tail(rec), acc)
            ELSE IF found = {} THEN BuildScan(Tail(rec), Append(acc, r))
            ELSE LET k == CHOOSE x \in found : \A y \in found : x <= y
                 IN BuildScan(Tail(rec),
                              IF r.rssi > acc[k].rssi
                              THEN [acc EXCEPT ![k].rssi = r.rssi] ELSE acc)

Rec(s, r) == [ssid |-> s, rssi |-> r]
\* raw records a scan returns when the networks of `air` are in range; netA
\* is heard from two access points
ScanRecords(air) ==
    SelectSeq(<<Rec("netA", -70)>> \o [k \in 1..MaxStored |-> Rec(NetNames[k], -50 - k)],
              LAMBDA r : r.ssid \in air)

(* ------------------------------ task state ---------------------------- *)
LocInit == [i |-> 0, attempt |-> 0, prev |-> Cred(NoStr, NoStr),
            new |-> Cred(NoStr, NoStr), reason |-> WFM_DISC_NONE, ret |-> ESP_OK]

\* app_main and the command layer: init_success, the two button flags, the
\* provisioning web server, init_web_app done, the MQTT client started and
\* mqm.connected
\* the statics of gpio_interrupt_handler
IsrInit == [last_level |-> 1, press_start_time |-> 0, last_release_time |-> 0,
            click_count |-> 0]

\* history of the button since boot: the presses whose two edges the handler
\* saw (`at`: second of the release, `held`: seconds the button was down),
\* and how often the handler wrote true into each flag
BtnInit == [rel |-> <<>>, nLong |-> 0, nTriple |-> 0]

AppInit == [init_success |-> TRUE, wifi_triple_pressed |-> FALSE,
            wifi_reset_pressed |-> FALSE,
            webserver |-> FALSE, app_initialized |-> FALSE,
            mqm_started |-> FALSE, mqm_connected |-> FALSE,
            now |-> 0, isr |-> IsrInit, btn |-> BtnInit]

\* budgets of the environment and the networks in range (`air`).  A run of the
\* whole program sees link drops and button presses, or network-switch
\* commands, or button presses and calls that fail for lack of resources
\* (`faults`); a run of the interface model sees calls of a client.  MQTT
\* sessions that break and come back (`flips`) are followed in the model of
\* the network-switch command.
Scenarios ==
    {[drops |-> MaxDrops, presses |-> MaxPresses, cmds |-> 0, calls |-> 0, faults |-> 0],
     [drops |-> 0, presses |-> 0, cmds |-> MaxCmds, calls |-> 0, faults |-> 0],
     [drops |-> 0, presses |-> MaxPresses, cmds |-> 0, calls |-> 0, faults |-> MaxFaults]}
ApiScenario == [drops |-> 0, presses |-> 0, cmds |-> 0, calls |-> MaxCalls]
EnvInit(sc, air) == [drops |-> sc.drops, presses |-> sc.presses, cmds |-> sc.cmds,
                     calls |-> sc.calls, air |-> air, cfg |-> NoCfg, mute |-> FALSE,
                     faults |-> 0, flips |-> 0, edges |-> 0, level |-> 1, down_at |-> 0]

\* history: candidates tried by wfm_first_connect and its return code, the
\* candidates of it whose GOT_IP was handled, origin of the last handled
\* STA_DISCONNECTED and whether it was raised during a manual operation
\* route: how app_main reached its loop ("ap", "sta", "sta_fail", "failure"),
\* then what the loop did on a flag ("reset", "triple", then "triple_done"
\* or, when wfm_start_ap failed, "triple_noap"); newDisc: classified reason
\* of the STA_DISCONNECTED of a command's attempt on the new network; nvs0:
\* the store when the command began; mqFresh: MQTT_EVENT_CONNECTED was
\* handled since; pub: the status the command published
HistInit == [fcAtt |-> <<>>, fcRet |-> "none", sig |-> {}, discBy |-> "none",
             discMan |-> FALSE, route |-> "none", newDisc |-> "none", nvs0 |-> <<>>,
             mqFresh |-> FALSE, pub |-> "none"]

(* ------------------------- the mqm_t context -------------------------- *)
\* a NULL pointer: absent topic, message, handler or context
NullPtr == "NULL"
\* mqm_bits_e
MQM_BIT_CONNECTED == "MQM_CONNECTED"
MQM_BIT_FAIL == "MQM_FAIL"

\* memset(mqm, 0, sizeof(*mqm)): no client handle, no event group, no
\* callbacks, no table
MqmZero == [client |-> FALSE, eg |-> FALSE, connected |-> FALSE, started |-> FALSE,
            initialized |-> FALSE,
            cbs |-> [on_status |-> FALSE, on_message |-> FALSE,
                     publish_when_client_connected |-> FALSE],
            table |-> <<>>]

\* the esp-mqtt client and the task that calls the manager:
\*   bits     bits set in mqm->eg
\*   raised   (history) bits the handler has set since mqm_start or mqm_stop
\*            was last called
\*   cli      the client: "stopped", "connecting" or "connected"
\*   h, i     position of the client task inside mqm_event_core and its
\*            index in the table
\*   ev       the event it handles or handled last
\*   seen     what the handler did for that event, in order
\*   pc, back position of the calling task inside the manager, and where
\*            mqm_stop returns to
\*   tmo, el  the timeout of its wait and the time it was blocked
\*   op, arg, ret  the last function called, its arguments and its result
\*   did      what that call did, in order
\*   left, evs     remaining calls and remaining broker events
\*   ui       the statics of mqtt_callbacks.c, the display and the LEDs, and
\*            (history) the status code on_mqtt_status was called with last
UiInit == [initialized |-> TRUE, prev_status |-> "MQM_NONE", lcd |-> "none",
           yellow |-> "off", green |-> "off", red |-> "off", last |-> "none"]
MqInit == [bits |-> {}, raised |-> {}, cli |-> "stopped", h |-> "idle", i |-> 0, pc |-> "idle",
           back |-> "idle", tmo |-> 0, el |-> 0, op |-> "none", arg |-> <<>>,
           ret |-> "none", did |-> <<>>, seen |-> <<>>,
           ev |-> [id |-> "none", topic |-> "", data |-> ""], left |-> 0, evs |-> 0,
           ui |-> UiInit]

\* the MQTT manager is not in use and nothing is handed to the scan list builder
NoRaw == [list |-> <<>>, built |-> FALSE]
\* no call of the credential store is recorded
NoCall == [op |-> "none", ssid |-> "", pass |-> "", left |-> 0]
AuxIdle == mqm = MqmZero /\ mq = MqInit /\ raw = NoRaw /\ store = NoCall

\* state of everything that does not survive a restart
Volatile(w, e, wm, b, d, q, ev, ah, p, st, l, a, h) ==
    /\ w = WfmZero
    /\ e = {}
    /\ wm = [t \in Tasks |-> {}]
    /\ b = [t \in Tasks |-> {}]
    /\ d = DrvInit
    /\ q = <<>>
    /\ ev = "idle"
    /\ ah = {}
    /\ p = [t \in Tasks |-> IF t = MainTask THEN "boot" ELSE "off"]
    /\ st = [t \in Tasks |-> <<>>]
    /\ l = [t \in Tasks |-> LocInit]
    /\ a = AppInit
    /\ h = HistInit

Init ==
    /\ nvs \in BootLists
    /\ \E sc \in Scenarios, air \in SUBSET SSIDs :
         env = [EnvInit(sc, air) EXCEPT !.faults = sc.faults]
    /\ Volatile(wfm, eg, wmask, bits, drv, evq, evt, ahead, pc, stack, loc, app, hist)
    /\ AuxIdle

\* esp_restart(), and abort() of a failed ESP_ERROR_CHECK: the device reboots
Restart ==
    /\ Volatile(wfm', eg', wmask', bits', drv', evq', evt', ahead', pc', stack', loc', app',
                hist')
    /\ UNCHANGED <<nvs, env>>

(* ------------------------- shorthand for actions ---------------------- *)
SetEg(s) == eg' = s.eg /\ wmask' = s.wmask /\ bits' = s.bits
SameEg == UNCHANGED <<eg, wmask, bits>>

Goto(t, label) == pc' = [pc EXCEPT ![t] = label] /\ UNCHANGED stack
\* call of a function whose first position is `entry`; `back` is where the
\* caller continues
Call(t, entry, back) ==
    /\ pc' = [pc EXCEPT ![t] = entry]
    /\ stack' = [stack EXCEPT ![t] = <<back>> \o stack[t]]
\* return to the caller
Return(t) ==
    /\ pc' = [pc EXCEPT ![t] = Head(stack[t])]
    /\ stack' = [stack EXCEPT ![t] = Tail(stack[t])]

SetLoc(t, l) == loc' = [loc EXCEPT ![t] = l]


(* ============================ wifi_event_handler ====================== *)
(* Runs on the event-loop task, one queued event at a time.  print_status  *)
(* with update_device = true calls on_wifi_status, which writes the LCD    *)
(* and blocks for MIN_LCD_SHOW_TIME; the handler is therefore split where  *)
(* code follows such a call.                                               *)
\* the handler enters the LCD sleep at position l / the sleep is over
FallAsleep(l) ==
    /\ evt' = l
    /\ ahead' = {<<t, pc[t]>> : t \in {u \in Tasks : pc[u] \in LongLabels}}
WakeUp == evt' = "idle" /\ ahead' = {}

EvHead(id) == evt = "idle" /\ evq # <<>> /\ Head(evq).id = id /\ wfm.inited

\* WIFI_EVENT_STA_START, up to print_status
on_STA_START ==
    /\ EvHead("STA_START")
    /\ SetEg(EgSet(EgNow, {WFM_BIT_STARTED}))
    /\ wfm' = [wfm EXCEPT !.started = TRUE]
    /\ IF wfm.connect_on_start THEN FallAsleep("connect_on_start")
       ELSE UNCHANGED <<evt, ahead>>
    /\ evq' = Tail(evq)
    /\ UNCHANGED <<nvs, drv, pc, stack, loc, app, env, hist>>
    /\ UNCHANGED aux

\* WIFI_EVENT_STA_START, ESP_ERROR_CHECK(esp_wifi_connect()) after print_status
on_STA_START_connect ==
    /\ evt = "connect_on_start"
    /\ TimePasses
    /\ \E nd \in NdChoices(drv) :
         LET r == esp_wifi_connect(drv, nd)
         IN IF r.ok
            THEN /\ drv' = r.d
                 /\ WakeUp
                 /\ UNCHANGED <<nvs, wfm, eg, wmask, bits, evq, pc, stack, loc, app, env, hist>>
            ELSE Restart
    /\ UNCHANGED aux

\* WIFI_EVENT_STA_DISCONNECTED, up to print_status("Wi-Fi disconnected")
on_STA_DISCONNECTED ==
    /\ EvHead("STA_DISCONNECTED")
    /\ wfm' = [wfm EXCEPT !.connected = FALSE,
                          !.last_disc = DiscReason(Head(evq).reason)]
    /\ SetEg(EgSet(EgClear(EgNow, {WFM_BIT_CONNECTED}), {WFM_BIT_FAIL}))
    /\ FallAsleep("disc_status")
    /\ evq' = Tail(evq)
    /\ hist' = [hist EXCEPT !.discBy = Head(evq).att.by, !.discMan = Head(evq).man,
                            !.newDisc = IF Head(evq).att.by = "cn_new"
                                        THEN DiscReason(Head(evq).reason) ELSE @]
    /\ UNCHANGED <<nvs, drv, pc, stack, loc, app, env>>
    /\ UNCHANGED aux

\* a reconnect task slot that is free, lowest first
FreeRc == {t \in RcTasks : pc[t] = "off" /\ \A u \in RcTasks : u[2] < t[2] => pc[u] # "off"}

\* xTaskCreate(wfm_reconnect_task, ...) decided by the two flags
SpawnReconnect(w) == w.auto_reconnect /\ ~w.manual_stop

\* WIFI_EVENT_STA_DISCONNECTED, after print_status: the auto-reconnect decision
on_STA_DISCONNECTED_spawn ==
    /\ evt = "disc_status"
    /\ TimePasses
    /\ WakeUp
    /\ IF SpawnReconnect(wfm) /\ FreeRc # {}
       THEN \E t \in FreeRc : pc' = [pc EXCEPT ![t] = "rc_delay"]
       ELSE pc' = pc
    /\ hist' = [hist EXCEPT !.discMan = FALSE]
    /\ UNCHANGED <<nvs, wfm, eg, wmask, bits, drv, evq, stack, loc, app, env>>
    /\ UNCHANGED aux

\* WIFI_EVENT_STA_STOP
on_STA_STOP ==
    /\ EvHead("STA_STOP")
    /\ SetEg(EgSet(EgNow, {WFM_BIT_STOPPED}))
    /\ wfm' = [wfm EXCEPT !.started = FALSE]
    /\ evq' = Tail(evq)
    /\ UNCHANGED <<nvs, drv, evt, ahead, pc, stack, loc, app, env, hist>>
    /\ UNCHANGED aux

\* WIFI_EVENT_SCAN_DONE
on_SCAN_DONE ==
    /\ EvHead("SCAN_DONE")
    /\ SetEg(EgSet(EgNow, {WFM_BIT_SCANDONE}))
    /\ evq' = Tail(evq)
    /\ UNCHANGED <<nvs, wfm, drv, evt, ahead, pc, stack, loc, app, env, hist>>
    /\ UNCHANGED aux

\* IP_EVENT_STA_GOT_IP: the snapshot is read from the driver's configuration
\* at the time the event is handled
on_GOT_IP ==
    /\ EvHead("GOT_IP")
    /\ wfm' = [wfm EXCEPT !.info = IF drv.st = "deinit" THEN Cred(NoStr, NoStr)
                                   ELSE Cred(drv.ssid, drv.pass),
                          !.connected = TRUE]
    /\ SetEg(EgClear(EgSet(EgNow, {WFM_BIT_CONNECTED}), {WFM_BIT_FAIL}))
    /\ evq' = Tail(evq)
    /\ FallAsleep("ip_status")
    /\ hist' = [hist EXCEPT !.sig = IF Head(evq).att.by = "fc"
                                     THEN @ \cup {Head(evq).att.idx} ELSE @]
    /\ UNCHANGED <<nvs, drv, pc, stack, loc, app, env>>
    /\ UNCHANGED aux

\* IP_EVENT_STA_GOT_IP: print_status("Wi-Fi connected") is over
on_GOT_IP_shown ==
    /\ evt = "ip_status"
    /\ TimePasses
    /\ WakeUp
    /\ UNCHANGED <<nvs, wfm, eg, wmask, bits, drv, evq, pc, stack, loc, app, env, hist>>
    /\ UNCHANGED aux

(* ========================= the driver as environment ================== *)
\* the access point accepts the station and DHCP assigns an address
DrvConnected ==
    /\ TimePasses
    /\ drv.link = "connecting"
    /\ drv.lssid \in env.air
    /\ drv' = [drv EXCEPT !.link = "connected"]
    /\ evq' = Post(evq, <<EvGotIp(drv.latt)>>)
    /\ UNCHANGED <<nvs, wfm, eg, wmask, bits, evt, ahead, pc, stack, loc, app, env, hist>>
    /\ UNCHANGED aux

\* the connection attempt fails
DrvConnectFailed ==
    /\ TimePasses
    /\ drv.link = "connecting"
    /\ drv' = Idle(drv)
    /\ evq' = Post(evq, <<EvDisc(FailReason(drv.lssid, env.air), drv.latt)>>)
    /\ UNCHANGED <<nvs, wfm, eg, wmask, bits, evt, ahead, pc, stack, loc, app, env, hist>>
    /\ UNCHANGED aux

\* an established link is lost
DrvLinkLost ==
    /\ TimePasses
    /\ drv.link = "connected"
    /\ env.drops > 0
    /\ drv' = Idle(drv)
    /\ evq' = Post(evq, <<EvDisc("BEACON_TIMEOUT", Att("drop", 0))>>)
    /\ env' = [env EXCEPT !.drops = @ - 1]
    /\ UNCHANGED <<nvs, wfm, eg, wmask, bits, evt, ahead, pc, stack, loc, app, hist>>
    /\ UNCHANGED aux


(* ============================== wfm_scan_sync ========================= *)
\* return from a manager function with code c
\* (the loop variables of the returning function die, those of a caller of
\* wfm_scan_sync live on)
ScanLabels == {"ss_entry", "ss_wait_started", "ss_scanning"}
Ret(t, c) ==
    /\ Return(t)
    /\ SetLoc(t, IF pc[t] \in ScanLabels THEN [loc[t] EXCEPT !.ret = c]
                 ELSE [loc[t] EXCEPT !.ret = c, !.i = 0, !.attempt = 0])

\* wfm_scan_sync, entry: bring the station up when wfm->started is false and
\* wait for STARTED; otherwise go straight to esp_wifi_scan_start
wfm_scan_sync(t) ==
    /\ At(t, "ss_entry")
    /\ IF ~wfm.started
       THEN LET r1 == esp_wifi_init(drv)
                r2 == esp_wifi_set_mode(r1.d, "STA")
                r3 == esp_wifi_start(r2.d)
            IN IF ~r2.ok \/ ~r3.ok
               THEN /\ Ret(t, ESP_ERR)
                    /\ wfm' = [wfm EXCEPT !.sta_netif = TRUE]
                    /\ drv' = r2.d
                    /\ evq' = Post(evq, r2.ev)
                    /\ SameEg
               ELSE /\ wfm' = [wfm EXCEPT !.sta_netif = TRUE, !.connect_on_start = FALSE]
                    /\ drv' = r3.d
                    /\ evq' = Post(evq, r2.ev \o r3.ev)
                    /\ SetEg(EgWait(EgNow, t, {WFM_BIT_STARTED}))
                    /\ Goto(t, "ss_wait_started")
                    /\ UNCHANGED loc
       ELSE /\ IF ScanAllowed(drv)
               THEN Goto(t, "ss_scanning") /\ UNCHANGED loc
               ELSE Ret(t, ESP_ERR)
            /\ UNCHANGED <<wfm, drv, evq>>
            /\ SameEg
    /\ UNCHANGED <<nvs, evt, ahead, app, env, hist>>
    /\ UNCHANGED aux

\* wfm_scan_sync: the wait for STARTED (3000 ms) ends, esp_wifi_scan_start is called
ss_wait_started(t) ==
    /\ At(t, "ss_wait_started")
    /\ WaitOver(t, 3000)
    /\ SetEg(EgLeft(t))
    /\ IF ScanAllowed(drv)
       THEN Goto(t, "ss_scanning") /\ UNCHANGED loc
       ELSE Ret(t, ESP_ERR)
    /\ UNCHANGED <<nvs, wfm, drv, evq, evt, ahead, app, env, hist>>
    /\ UNCHANGED aux

\* wfm_scan_sync: the blocking scan returns; the records are read and the
\* unique list is rebuilt
ss_scanning(t) ==
    /\ At(t, "ss_scanning")
    /\ IF drv.st = "started" /\ drv.mode = "STA"
       THEN /\ wfm' = [wfm EXCEPT !.scan = BuildScan(ScanRecords(env.air), <<>>)]
            /\ evq' = Post(evq, <<EvScanDone>>)
            /\ Ret(t, ESP_OK)
       ELSE /\ Ret(t, ESP_ERR)
            /\ UNCHANGED <<wfm, evq>>
    /\ UNCHANGED <<nvs, eg, wmask, bits, drv, evt, ahead, app, env, hist>>
    /\ UNCHANGED aux

(* ============================ wfm_first_connect ======================= *)
\* (variant that forgets the check against the scan)
CandidatesUnscanned(w, from) == from..Len(w.saved)
\* indices of saved credentials from `from` on whose name is in the last scan
Candidates(w, from) ==
    {k \in from..Len(w.saved) : is_ssid_available(w, w.saved[k].ssid)}
Min(S) == CHOOSE x \in S : \A y \in S : x <= y

\* return of wfm_first_connect, recorded for the properties
FcRet(t, c) == Ret(t, c) /\ hist' = [hist EXCEPT !.fcRet = c]

\* wfm_first_connect, entry: fail fast without credentials, else scan
wfm_first_connect(t) ==
    /\ At(t, "fc_entry")
    /\ IF Len(wfm.saved) = 0
       THEN FcRet(t, ESP_FAIL)
       ELSE Call(t, "ss_entry", "fc_scanned") /\ UNCHANGED <<loc, hist>>
    /\ UNCHANGED <<nvs, wfm, eg, wmask, bits, drv, evq, evt, ahead, app, env>>
    /\ UNCHANGED aux

\* wfm_stop_sta after wfm_disconnect_sta: esp_wifi_stop and the wait for STOPPED
StopSta(t, s, d, q, nd) ==
    LET r == esp_wifi_stop(d, nd)
    IN IF r.ok
       THEN /\ drv' = r.d
            /\ evq' = Post(q, r.ev)
            /\ SetEg(EgWait(s, t, {WFM_BIT_STOPPED}))
            /\ Goto(t, "st_wait")
            /\ UNCHANGED <<loc, hist>>
       ELSE /\ drv' = d
            /\ evq' = q
            /\ SetEg(s)
            /\ FcRet(t, ESP_ERR)

\* wfm_first_connect after the scan: wfm_stop_sta, which first calls
\* wfm_disconnect_sta (a no-op unless the mode is STA)
fc_scanned(t) ==
    /\ At(t, "fc_scanned")
    /\ IF loc[t].ret # ESP_OK
       THEN /\ FcRet(t, loc[t].ret)
            /\ UNCHANGED <<drv, evq>>
            /\ SameEg
       ELSE \E nd \in NdChoices(drv) :
              LET r == esp_wifi_disconnect(drv, nd)
              IN IF wfm.mode = WFM_MODE_STA /\ r.ok
                 THEN /\ drv' = r.d
                      /\ evq' = Post(evq, r.ev)
                      /\ SetEg(EgWait(EgNow, t, {WFM_BIT_FAIL, WFM_BIT_STOPPED}))
                      /\ Goto(t, "sd_wait")
                      /\ UNCHANGED <<loc, hist>>
                 ELSE StopSta(t, EgNow, drv, evq, nd)
    /\ UNCHANGED <<nvs, wfm, evt, ahead, app, env>>
    /\ UNCHANGED aux

\* wfm_disconnect_sta: the wait for FAIL | STOPPED (5000 ms) ends; wfm_stop_sta
\* ignores the result and stops the driver
sd_wait(t) ==
    /\ At(t, "sd_wait")
    /\ WaitOver(t, WIFI_DISCONNECT_TIMEOUT_MS)
    /\ \E nd \in NdChoices(drv) : StopSta(t, EgLeft(t), drv, evq, nd)
    /\ UNCHANGED <<nvs, wfm, evt, ahead, app, env>>
    /\ UNCHANGED aux

\* one iteration entry of the credential loop: skip names absent from the
\* scan, apply the candidate, start the radio and wait for CONNECTED | FAIL
FcTryFrom(t, from, s) ==
    IF Candidates(wfm, from) = {}
    THEN /\ FcRet(t, ESP_FAIL)
         /\ SetEg(s)
         /\ UNCHANGED <<wfm, drv, evq>>
    ELSE LET i == Min(Candidates(wfm, from))
         IN \E nd \in NdChoices(drv) :
              LET r1 == esp_wifi_set_config(drv, wfm.saved[i].ssid, wfm.saved[i].pass,
                                            Att("fc", i), nd)
                  r2 == esp_wifi_start(r1.d)
              IN IF ~r1.ok
                 THEN /\ FcRet(t, ESP_ERR)
                      /\ SetEg(s)
                      /\ UNCHANGED <<wfm, drv, evq>>
                 ELSE IF ~r2.ok
                 THEN /\ FcRet(t, ESP_ERR)
                      /\ SetEg(s)
                      /\ wfm' = [wfm EXCEPT !.connect_on_start = TRUE,
                                            !.auto_reconnect = FALSE]
                      /\ drv' = r1.d
                      /\ UNCHANGED evq
                 ELSE /\ wfm' = [wfm EXCEPT !.connect_on_start = TRUE,
                                            !.auto_reconnect = FALSE]
                      /\ drv' = r2.d
                      /\ evq' = Post(evq, r2.ev)
                      /\ SetEg(EgWait(s, t, {WFM_BIT_CONNECTED, WFM_BIT_FAIL}))
                      /\ Goto(t, "fc_wait")
                      /\ SetLoc(t, [loc[t] EXCEPT !.i = i])
                      /\ hist' = [hist EXCEPT !.fcAtt = Append(@, i)]

\* wfm_stop_sta: the wait for STOPPED (10000 ms) ends; on a timeout
\* wfm_first_connect returns the error, else the credential loop starts
st_wait(t) ==
    /\ At(t, "st_wait")
    /\ WaitOver(t, WIFI_STOP_TIMEOUT_MS)
    /\ IF WFM_BIT_STOPPED \in WaitResult(t)
       THEN FcTryFrom(t, 1, EgLeft(t))
       ELSE /\ FcRet(t, ESP_FAIL)
            /\ SetEg(EgLeft(t))
            /\ UNCHANGED <<wfm, drv, evq>>
    /\ UNCHANGED <<nvs, evt, ahead, app, env>>
    /\ UNCHANGED aux

\* the wait for CONNECTED | FAIL ends: success returns at once; otherwise
\* ESP_ERROR_CHECK(esp_wifi_stop()) and the wait for STOPPED (3000 ms)
fc_wait(t) ==
    /\ At(t, "fc_wait")
    /\ WaitOver(t, WIFI_CONNECT_TIMEOUT_MS)
    /\ IF WFM_BIT_CONNECTED \in WaitResult(t)
       THEN /\ wfm' = [wfm EXCEPT !.auto_reconnect = TRUE, !.mode = WFM_MODE_STA]
            /\ FcRet(t, ESP_OK)
            /\ SetEg(EgLeft(t))
            /\ UNCHANGED <<nvs, drv, evq, evt, ahead, app, env>>
       ELSE \E nd \in NdChoices(drv) :
              LET r == esp_wifi_stop(drv, nd)
              IN IF r.ok
                 THEN /\ drv' = r.d
                      /\ evq' = Post(evq, r.ev)
                      /\ SetEg(EgWait(EgLeft(t), t, {WFM_BIT_STOPPED}))
                      /\ Goto(t, "fc_stopwait")
                      /\ UNCHANGED <<nvs, wfm, evt, ahead, loc, app, env, hist>>
                 ELSE Restart
    /\ UNCHANGED aux

\* (variant that goes on to the next credential without the wait for STOPPED)
fc_stopnowait(t) ==
    /\ At(t, "fc_stopwait")
    /\ FcTryFrom(t, loc[t].i + 1, EgLeft(t))
    /\ UNCHANGED <<nvs, evt, ahead, app, env>>
    /\ UNCHANGED aux
\* the wait for STOPPED ends (result ignored): next credential
fc_stopwait(t) ==
    /\ At(t, "fc_stopwait")
    /\ WaitOver(t, 3000)
    /\ FcTryFrom(t, loc[t].i + 1, EgLeft(t))
    /\ UNCHANGED <<nvs, evt, ahead, app, env>>
    /\ UNCHANGED aux


(* ======================= wfm_start_ap / wfm_stop_ap =================== *)
\* wfm_start_ap, entry: esp_wifi_stop (result ignored) and the wait for
\* STOPPED (1000 ms)
wfm_start_ap(t) ==
    /\ At(t, "ap_entry")
    /\ \E nd \in NdChoices(drv) :
         LET r == esp_wifi_stop(drv, nd)
         IN /\ drv' = r.d
            /\ evq' = Post(evq, r.ev)
    /\ SetEg(EgWait(EgNow, t, {WFM_BIT_STOPPED}))
    /\ Goto(t, "ap_wait")
    /\ UNCHANGED <<nvs, wfm, evt, ahead, loc, app, env, hist>>
    /\ UNCHANGED aux

\* wfm_start_ap after the wait: deinit, destroy the STA netif, create the AP
\* netif, init, set AP mode and configuration, start, mode = AP; each of
\* these under ESP_RETURN_ON_ERROR.  The AP netif cannot be created when the
\* allocation fails (nomem).
ap_wait(t) ==
    /\ At(t, "ap_wait")
    /\ WaitOver(t, 1000)
    /\ SetEg(EgLeft(t))
    /\ \E nomem \in (IF env.faults > 0 /\ ~wfm.ap_netif THEN BOOLEAN ELSE {FALSE}) :
         LET r1 == esp_wifi_deinit(drv)
             r2 == esp_wifi_init(r1.d)
             r3 == esp_wifi_set_mode(r2.d, "AP")
             r4 == esp_wifi_start([r3.d EXCEPT !.ap = Cred(Cut(WIFI_AP_SSID, AP_SSID_SIZE - 1),
                                                          Cut(WIFI_AP_PASSWORD,
                                                              AP_PASS_SIZE - 1))])
         IN IF nomem
            THEN /\ drv' = r1.d
                 /\ wfm' = [wfm EXCEPT !.sta_netif = FALSE]
                 /\ env' = [env EXCEPT !.faults = @ - 1]
                 /\ Ret(t, ESP_FAIL)
                 /\ UNCHANGED evq
            ELSE IF ~r2.ok \/ ~r3.ok \/ ~r4.ok
            THEN /\ drv' = IF ~r2.ok THEN r2.d ELSE IF ~r3.ok THEN r3.d ELSE r4.d
                 /\ wfm' = [wfm EXCEPT !.sta_netif = FALSE, !.ap_netif = TRUE]
                 /\ evq' = Post(evq, IF r3.ok THEN r3.ev ELSE <<>>)
                 /\ Ret(t, ESP_ERR)
                 /\ UNCHANGED env
            ELSE /\ drv' = r4.d
                 /\ evq' = Post(evq, r3.ev \o r4.ev)
                 /\ wfm' = [wfm EXCEPT !.sta_netif = FALSE, !.ap_netif = TRUE,
                                       !.mode = WFM_MODE_AP]
                 /\ Goto(t, "ap_shown")
                 /\ UNCHANGED <<loc, env>>
    /\ UNCHANGED <<nvs, evt, ahead, app, hist>>
    /\ UNCHANGED aux

\* wfm_start_ap returns after print_status("Wi-Fi setup server started") has
\* slept on the LCD
ap_shown(t) ==
    /\ At(t, "ap_shown")
    /\ Ret(t, ESP_OK)
    /\ UNCHANGED <<nvs, wfm, eg, wmask, bits, drv, evq, evt, ahead, app, env, hist>>
    /\ UNCHANGED aux

\* wfm_stop_ap, entry: returns ESP_OK unless started and in AP mode; else
\* ESP_ERROR_CHECK(esp_wifi_stop()) and the wait for STOPPED (2000 ms)
wfm_stop_ap(t) ==
    /\ At(t, "sa_entry")
    /\ IF ~wfm.started \/ wfm.mode # WFM_MODE_AP
       THEN /\ Ret(t, ESP_OK)
            /\ UNCHANGED <<nvs, wfm, eg, wmask, bits, drv, evq, evt, ahead, app, env, hist>>
       ELSE \E nd \in NdChoices(drv) :
              LET r == esp_wifi_stop(drv, nd)
              IN IF r.ok
                 THEN /\ drv' = r.d
                      /\ evq' = Post(evq, r.ev)
                      /\ SetEg(EgWait(EgNow, t, {WFM_BIT_STOPPED}))
                      /\ Goto(t, "sa_wait")
                      /\ UNCHANGED <<nvs, wfm, evt, ahead, loc, app, env, hist>>
                 ELSE Restart
    /\ UNCHANGED aux

\* wfm_stop_ap after the wait: ESP_ERROR_CHECK(esp_wifi_deinit()), destroy the
\* AP netif, mode = NONE
sa_wait(t) ==
    /\ At(t, "sa_wait")
    /\ WaitOver(t, 2000)
    /\ LET r == esp_wifi_deinit(drv)
       IN IF r.ok
          THEN /\ drv' = r.d
               /\ wfm' = [wfm EXCEPT !.ap_netif = FALSE, !.mode = WFM_MODE_NONE]
               /\ SetEg(EgLeft(t))
               /\ Goto(t, "sa_shown")
               /\ UNCHANGED <<nvs, evq, evt, ahead, loc, app, env, hist>>
          ELSE Restart
    /\ UNCHANGED aux

\* wfm_stop_ap returns after print_status("Wi-Fi setup server stopped") has
\* slept on the LCD
sa_shown(t) ==
    /\ At(t, "sa_shown")
    /\ Ret(t, ESP_OK)
    /\ UNCHANGED <<nvs, wfm, eg, wmask, bits, drv, evq, evt, ahead, app, env, hist>>
    /\ UNCHANGED aux

(* ========================== wfm_full_driver_stop ====================== *)
\* wfm_full_driver_stop, entry: manual_stop = true, esp_wifi_disconnect (result
\* ignored), ESP_ERROR_CHECK(esp_wifi_stop()), wait for STOPPED (3000 ms)
wfm_full_driver_stop(t) ==
    /\ At(t, "fs_entry")
    /\ \E nd \in NdChoices(drv) :
         LET r1 == esp_wifi_disconnect(drv, nd)
             r2 == esp_wifi_stop(r1.d, nd)
         IN IF r2.ok
            THEN /\ wfm' = [wfm EXCEPT !.manual_stop = TRUE]
                 /\ drv' = r2.d
                 /\ evq' = Post(evq, r1.ev \o r2.ev)
                 /\ SetEg(EgWait(EgNow, t, {WFM_BIT_STOPPED}))
                 /\ Goto(t, "fs_wait")
                 /\ UNCHANGED <<nvs, evt, ahead, loc, app, env, hist>>
            ELSE Restart
    /\ UNCHANGED aux

\* wfm_full_driver_stop after the wait: ESP_ERROR_CHECK(esp_wifi_deinit()),
\* manual_stop = false, clear CONNECTED | FAIL | STARTED, mode = NONE
fs_wait(t) ==
    /\ At(t, "fs_wait")
    /\ WaitOver(t, 3000)
    /\ LET r == esp_wifi_deinit(drv)
       IN IF r.ok
          THEN /\ drv' = r.d
               /\ wfm' = [wfm EXCEPT !.manual_stop = FALSE, !.mode = WFM_MODE_NONE]
               /\ SetEg(EgClear(EgLeft(t),
                                {WFM_BIT_CONNECTED, WFM_BIT_FAIL, WFM_BIT_STARTED}))
               /\ Goto(t, "fs_shown")
               /\ UNCHANGED <<nvs, evq, evt, ahead, loc, app, env, hist>>
          ELSE Restart
    /\ UNCHANGED aux

\* wfm_full_driver_stop returns after print_status("Wi-Fi full driver
\* stopped") has slept on the LCD
fs_shown(t) ==
    /\ At(t, "fs_shown")
    /\ Ret(t, ESP_OK)
    /\ UNCHANGED <<nvs, wfm, eg, wmask, bits, drv, evq, evt, ahead, app, env, hist>>
    /\ UNCHANGED aux


(* ============================== wfm_reconnect ========================= *)
\* candidate k of a round: 0 is the network of wfm->info (i == -1 in the
\* code), k >= 1 is saved.creds[k-1]
RcCred(w, k) == IF k = 0 THEN w.info ELSE w.saved[k]
RcCandidates(w, from) ==
    {k \in from..Len(w.saved) : is_ssid_available(w, RcCred(w, k).ssid)}

\* wfm_reconnect, entry: auto_reconnect = false, then the first round
wfm_reconnect(t) ==
    /\ At(t, "rcn_entry")
    /\ wfm' = [wfm EXCEPT !.auto_reconnect = FALSE]
    /\ SetLoc(t, [loc[t] EXCEPT !.attempt = 0])
    /\ Goto(t, "rcn_round")
    /\ UNCHANGED <<nvs, eg, wmask, bits, drv, evq, evt, ahead, app, env, hist>>
    /\ UNCHANGED aux

\* a round begins: after print_status("Attempting to reconnect...") has
\* slept on the LCD, wfm_scan_sync
rcn_round(t) ==
    /\ At(t, "rcn_round")
    /\ Call(t, "ss_entry", "rcn_scanned")
    /\ UNCHANGED <<nvs, wfm, eg, wmask, bits, drv, evq, evt, ahead, loc, app, env, hist>>
    /\ UNCHANGED aux

\* one candidate of a round from index `from` on: apply it, clear
\* CONNECTED | FAIL, esp_wifi_connect, wait; without a candidate the round
\* ends: next round or, after MAX_RECONNECT_ATTEMPTS rounds, the final status
RcTryFrom(t, from, s) ==
    IF RcCandidates(wfm, from) = {}
    THEN /\ SetEg(s)
         /\ UNCHANGED <<drv, evq>>
         /\ IF loc[t].attempt + 1 < MAX_RECONNECT_ATTEMPTS
            THEN /\ Goto(t, "rcn_round")
                 /\ SetLoc(t, [loc[t] EXCEPT !.attempt = @ + 1])
                 /\ UNCHANGED wfm
            ELSE /\ Goto(t, "rcn_failed")
                 /\ UNCHANGED <<wfm, loc>>
    ELSE LET k == Min(RcCandidates(wfm, from))
         IN \E nd1 \in NdChoices(drv) :
              LET r1 == esp_wifi_set_config(drv, RcCred(wfm, k).ssid, RcCred(wfm, k).pass,
                                            Att("rc", k), nd1)
              IN IF ~r1.ok
                 THEN /\ Ret(t, ESP_ERR)
                      /\ SetEg(s)
                      /\ UNCHANGED <<wfm, drv, evq>>
                 ELSE \E nd2 \in NdChoices(r1.d) :
                        LET r2 == esp_wifi_connect(r1.d, nd2)
                            cleared == EgClear(s, {WFM_BIT_CONNECTED, WFM_BIT_FAIL})
                        IN IF ~r2.ok
                           THEN /\ Ret(t, ESP_ERR)
                                /\ SetEg(cleared)
                                /\ drv' = r1.d
                                /\ UNCHANGED <<wfm, evq>>
                           ELSE /\ drv' = r2.d
                                /\ SetEg(EgWait(cleared, t,
                                                {WFM_BIT_CONNECTED, WFM_BIT_FAIL}))
                                /\ Goto(t, "rcn_wait")
                                /\ SetLoc(t, [loc[t] EXCEPT !.i = k])
                                /\ UNCHANGED <<wfm, evq>>

\* wfm_reconnect after the scan of a round: esp_wifi_get_config, then the
\* candidates starting with the previously used network
rcn_scanned(t) ==
    /\ At(t, "rcn_scanned")
    /\ IF loc[t].ret # ESP_OK
       THEN /\ Goto(t, "rcn_scanfail")
            /\ UNCHANGED <<wfm, drv, evq, loc>>
            /\ SameEg
       ELSE IF ~esp_wifi_get_config(drv).ok
            THEN /\ Ret(t, ESP_ERR)
                 /\ UNCHANGED <<wfm, drv, evq>>
                 /\ SameEg
            ELSE RcTryFrom(t, 0, EgNow)
    /\ UNCHANGED <<nvs, evt, ahead, app, env, hist>>
    /\ UNCHANGED aux

\* the wait for CONNECTED | FAIL ends: success returns, else next candidate
rcn_wait(t) ==
    /\ At(t, "rcn_wait")
    /\ WaitOver(t, WIFI_CONNECT_TIMEOUT_MS)
    /\ IF WFM_BIT_CONNECTED \in WaitResult(t)
       THEN /\ wfm' = [wfm EXCEPT !.mode = WFM_MODE_STA, !.auto_reconnect = TRUE]
            /\ Ret(t, ESP_OK)
            /\ SetEg(EgLeft(t))
            /\ UNCHANGED <<drv, evq>>
       ELSE RcTryFrom(t, loc[t].i + 1, EgLeft(t))
    /\ UNCHANGED <<nvs, evt, ahead, app, env, hist>>
    /\ UNCHANGED aux

\* the scan of a round failed: after print_status("Wi-Fi scan failed during
\* reconnect") has slept on the LCD, return the error
rcn_scanfail(t) ==
    /\ At(t, "rcn_scanfail")
    /\ Ret(t, loc[t].ret)
    /\ UNCHANGED <<nvs, wfm, eg, wmask, bits, drv, evq, evt, ahead, app, env, hist>>
    /\ UNCHANGED aux

\* all rounds are exhausted: after print_status("Auto-reconnect failed after
\* all attempts") has slept on the LCD, auto_reconnect = true and ESP_FAIL
rcn_failed(t) ==
    /\ At(t, "rcn_failed")
    /\ wfm' = [wfm EXCEPT !.auto_reconnect = TRUE]
    /\ Ret(t, ESP_FAIL)
    /\ UNCHANGED <<nvs, eg, wmask, bits, drv, evq, evt, ahead, app, env, hist>>
    /\ UNCHANGED aux

\* wfm_reconnect_task: after vTaskDelay(500) call wfm_reconnect
wfm_reconnect_task(t) ==
    /\ At(t, "rc_delay")
    /\ Call(t, "rcn_entry", "rc_done")
    /\ UNCHANGED <<nvs, wfm, eg, wmask, bits, drv, evq, evt, ahead, loc, app, env, hist>>
    /\ UNCHANGED aux

\* wfm_reconnect_task: vTaskDelete(NULL)
rc_done(t) ==
    /\ At(t, "rc_done")
    /\ pc' = [pc EXCEPT ![t] = "off"]
    /\ SetLoc(t, LocInit)
    /\ UNCHANGED <<nvs, wfm, eg, wmask, bits, drv, evq, evt, ahead, stack, app, env, hist>>
    /\ UNCHANGED aux

(* ============================ wfm_change_network ====================== *)
\* wfm_change_network, entry: auto_reconnect = false, back up wfm->info,
\* esp_wifi_get_config, esp_wifi_disconnect (result ignored)
wfm_change_network(t) ==
    /\ At(t, "cnw_entry")
    /\ wfm' = [wfm EXCEPT !.auto_reconnect = FALSE]
    /\ IF ~esp_wifi_get_config(drv).ok
       THEN /\ Ret(t, ESP_ERR)
            /\ UNCHANGED <<drv, evq>>
       ELSE \E nd \in NdChoices(drv) :
              LET r == esp_wifi_disconnect(drv, nd)
              IN /\ drv' = r.d
                 /\ evq' = Post(evq, r.ev)
                 /\ SetLoc(t, [loc[t] EXCEPT !.prev = wfm.info])
                 /\ Goto(t, "cnw_apply")
    /\ UNCHANGED <<nvs, eg, wmask, bits, evt, ahead, app, env, hist>>
    /\ UNCHANGED aux

\* clear CONNECTED | FAIL, apply the new credentials, esp_wifi_connect, wait
cnw_apply(t) ==
    /\ At(t, "cnw_apply")
    /\ LET cleared == EgClear(EgNow, {WFM_BIT_CONNECTED, WFM_BIT_FAIL})
       IN \E nd1 \in NdChoices(drv) :
            LET r1 == esp_wifi_set_config(drv, loc[t].new.ssid, loc[t].new.pass,
                                          Att("cn_new", 0), nd1)
            IN IF ~r1.ok
               THEN /\ Ret(t, ESP_ERR)
                    /\ SetEg(cleared)
                    /\ UNCHANGED drv
               ELSE \E nd2 \in NdChoices(r1.d) :
                      LET r2 == esp_wifi_connect(r1.d, nd2)
                      IN IF ~r2.ok
                         THEN /\ Ret(t, ESP_ERR)
                              /\ SetEg(cleared)
                              /\ drv' = r1.d
                         ELSE /\ drv' = r2.d
                              /\ SetEg(EgWait(cleared, t,
                                              {WFM_BIT_CONNECTED, WFM_BIT_FAIL}))
                              /\ Goto(t, "cnw_wait1")
                              /\ UNCHANGED loc
    /\ UNCHANGED <<nvs, wfm, evq, evt, ahead, app, env, hist>>
    /\ UNCHANGED aux

\* the wait on the new network ends: success returns; otherwise the previous
\* credentials are applied under ESP_ERROR_CHECK and the revert is awaited
cnw_wait1(t) ==
    /\ At(t, "cnw_wait1")
    /\ WaitOver(t, WIFI_CONNECT_TIMEOUT_MS)
    /\ IF WFM_BIT_CONNECTED \in WaitResult(t)
       THEN /\ wfm' = [wfm EXCEPT !.auto_reconnect = TRUE]
            /\ Return(t)
            /\ SetLoc(t, [loc[t] EXCEPT !.ret = ESP_OK, !.reason = WFM_DISC_NONE])
            /\ SetEg(EgLeft(t))
            /\ UNCHANGED <<nvs, drv, evq, evt, ahead, app, env, hist>>
       ELSE \E nd1 \in NdChoices(drv) :
              LET r1 == esp_wifi_set_config(drv, loc[t].prev.ssid, loc[t].prev.pass,
                                            Att("cn_rev", 0), nd1)
              IN IF ~r1.ok THEN Restart
                 ELSE \E nd2 \in NdChoices(r1.d) :
                        LET r2 == esp_wifi_connect(r1.d, nd2)
                        IN IF ~r2.ok THEN Restart
                           ELSE /\ drv' = r2.d
                                /\ SetEg(EgWait(EgLeft(t), t,
                                                {WFM_BIT_CONNECTED, WFM_BIT_FAIL}))
                                /\ Goto(t, "cnw_wait2")
                                /\ UNCHANGED <<nvs, wfm, evq, evt, ahead, loc, app, env, hist>>
    /\ UNCHANGED aux

\* the wait on the previous network ends: *out_reason = wfm->last_disc; when
\* not connected the full reconnect procedure runs
cnw_wait2(t) ==
    /\ At(t, "cnw_wait2")
    /\ WaitOver(t, WIFI_CONNECT_TIMEOUT_MS)
    /\ SetEg(EgLeft(t))
    /\ IF ~wfm.connected
       THEN /\ Call(t, "rcn_entry", "cnw_rc_ret")
            /\ SetLoc(t, [loc[t] EXCEPT !.reason = wfm.last_disc])
            /\ UNCHANGED wfm
       ELSE /\ wfm' = [wfm EXCEPT !.auto_reconnect = TRUE]
            /\ Return(t)
            /\ SetLoc(t, [loc[t] EXCEPT !.ret = ESP_FAIL, !.reason = wfm.last_disc])
    /\ UNCHANGED <<nvs, drv, evq, evt, ahead, app, env, hist>>
    /\ UNCHANGED aux

\* wfm_reconnect returned inside wfm_change_network
cnw_rc_ret(t) ==
    /\ At(t, "cnw_rc_ret")
    /\ wfm' = [wfm EXCEPT !.auto_reconnect = TRUE]
    /\ Ret(t, ESP_FAIL)
    /\ UNCHANGED <<nvs, eg, wmask, bits, drv, evq, evt, ahead, app, env, hist>>
    /\ UNCHANGED aux

(* ====================== credential store (nvs_memory.c) =============== *)
\* an add that appends whatever the number of entries held
add_wifi_creds_nocap(list, ssid, pass) ==
    IF ssid = NoStr THEN list
    ELSE LET found == {k \in 1..Len(list) : list[k].ssid = ssid}
         IN IF found # {} THEN [list EXCEPT ![Min(found)].pass = Cut(pass, WFM_PASS_MAX)]
            ELSE Append(list, Cred(Cut(ssid, WFM_SSID_MAX), Cut(pass, WFM_PASS_MAX)))

\* add_wifi_creds_to_NVS_memory: update the password of the entry whose name
\* compares equal (strcmp with the name as given), else append while fewer
\* than WFM_MAX_CREDS entries are held; strlcpy cuts what is stored to the
\* size of the field
add_wifi_creds(list, ssid, pass) ==
    IF ssid = NoStr THEN list
    ELSE LET found == {k \in 1..Len(list) : list[k].ssid = ssid}
         IN IF found # {} THEN [list EXCEPT ![Min(found)].pass = Cut(pass, WFM_PASS_MAX)]
            ELSE IF Len(list) < WFM_MAX_CREDS
                 THEN Append(list, Cred(Cut(ssid, WFM_SSID_MAX), Cut(pass, WFM_PASS_MAX)))
            ELSE list

\* remove_wifi_creds_from_NVS_memory: the first entry with the name is
\* overwritten by the last entry and the list shrinks by one
remove_wifi_creds(list, ssid) ==
    IF ssid = NoStr THEN list
    ELSE LET found == {k \in 1..Len(list) : list[k].ssid = ssid}
         IN IF found = {} THEN list
            ELSE SubSeq([list EXCEPT ![Min(found)] = list[Len(list)]], 1, Len(list) - 1)

(* ================== change_wifi_network_task (command layer) ========== *)
FreeCn == {t \in CnTasks : pc[t] = "off"}

\* change_wifi_network_handler: a "connect new wifi" command arrives over MQTT
\* and a task is created for it
change_wifi_network_handler ==
    /\ TimePasses
    /\ app.app_initialized /\ app.mqm_connected
    /\ drv.link = "connected"
    /\ env.cmds > 0
    /\ FreeCn # {}
    /\ \E s \in SSIDs, p \in Passwords :
         LET t == CHOOSE u \in FreeCn : TRUE
         IN /\ pc' = [pc EXCEPT ![t] = "cn_start"]
            /\ SetLoc(t, [LocInit EXCEPT !.new = Cred(s, p)])
    /\ env' = [env EXCEPT !.cmds = @ - 1]
    /\ UNCHANGED <<nvs, wfm, eg, wmask, bits, drv, evq, evt, ahead, stack, app, hist>>
    /\ UNCHANGED aux

\* change_wifi_network_task: after the LCD message, wfm_change_network
change_wifi_network_task(t) ==
    /\ At(t, "cn_start")
    /\ Call(t, "cnw_entry", "cn_ret")
    /\ hist' = [hist EXCEPT !.newDisc = "none", !.nvs0 = nvs, !.mqFresh = FALSE,
                            !.pub = "none"]
    /\ UNCHANGED <<nvs, wfm, eg, wmask, bits, drv, evq, evt, ahead, loc, app, env>>
    /\ UNCHANGED aux

\* change_wifi_network_task after wfm_change_network: with ESP_OK and the
\* station connected, or with a failure and the station connected, it polls
\* mqm_is_connected for up to 60 s; with the station down it only reports
cn_ret(t) ==
    /\ At(t, "cn_ret")
    /\ IF wfm.connected
       THEN /\ Goto(t, IF loc[t].ret = ESP_OK THEN "cn_poll_ok" ELSE "cn_poll_fail")
            /\ UNCHANGED loc
       ELSE /\ pc' = [pc EXCEPT ![t] = "off"]
            /\ SetLoc(t, LocInit)
            /\ UNCHANGED stack
    /\ UNCHANGED <<nvs, wfm, eg, wmask, bits, drv, evq, evt, ahead, app, env, hist>>
    /\ UNCHANGED aux

\* publish_q1: mqm_publish_ex refuses while mqm.connected is false
publish_q1(msg) == IF app.mqm_connected THEN msg ELSE "none"

\* the poll loop ends, because mqm_is_connected is true or after 60 s.  After
\* a switch with MQTT connected the status is published and the credentials
\* are added; after a failure the status for the reason is published and a
\* wrong password removes the name from the store
cn_poll(t) ==
    /\ \/ At(t, "cn_poll_ok")
       \/ At(t, "cn_poll_fail")
    /\ IF pc[t] = "cn_poll_ok"
       THEN IF app.mqm_connected
            THEN /\ nvs' = add_wifi_creds(nvs, loc[t].new.ssid, loc[t].new.pass)
                 /\ hist' = [hist EXCEPT !.pub = publish_q1("new wifi connected")]
            ELSE UNCHANGED <<nvs, hist>>
       ELSE CASE loc[t].reason = WFM_DISC_WRONG_PASSWORD ->
                   /\ nvs' = remove_wifi_creds(nvs, loc[t].new.ssid)
                   /\ hist' = [hist EXCEPT !.pub = publish_q1("wrong password")]
              [] loc[t].reason = WFM_DISC_NO_AP ->
                   /\ nvs' = nvs
                   /\ hist' = [hist EXCEPT !.pub = publish_q1("ssid not found")]
              [] OTHER ->
                   /\ nvs' = nvs
                   /\ hist' = [hist EXCEPT !.pub = publish_q1("other reason")]
    /\ pc' = [pc EXCEPT ![t] = "off"]
    /\ SetLoc(t, LocInit)
    /\ UNCHANGED <<wfm, eg, wmask, bits, drv, evq, evt, ahead, stack, app, env>>
    /\ UNCHANGED aux

\* mqm_event_core, MQTT_EVENT_DISCONNECTED: the session of the running client
\* breaks
app_on_DISCONNECTED ==
    /\ TimePasses
    /\ env.flips > 0
    /\ app.mqm_connected
    /\ app' = [app EXCEPT !.mqm_connected = FALSE]
    /\ env' = [env EXCEPT !.flips = @ - 1]
    /\ UNCHANGED <<nvs, wfm, eg, wmask, bits, drv, evq, evt, ahead, pc, stack, loc, hist>>
    /\ UNCHANGED aux

\* mqm_event_core, MQTT_EVENT_CONNECTED: the running client reconnects over
\* an established station link
app_on_CONNECTED ==
    /\ TimePasses
    /\ env.flips > 0
    /\ app.mqm_started /\ ~app.mqm_connected
    /\ drv.mode = "STA" /\ drv.link = "connected"
    /\ app' = [app EXCEPT !.mqm_connected = TRUE]
    /\ hist' = [hist EXCEPT !.mqFresh = TRUE]
    /\ env' = [env EXCEPT !.flips = @ - 1]
    /\ UNCHANGED <<nvs, wfm, eg, wmask, bits, drv, evq, evt, ahead, pc, stack, loc>>
    /\ UNCHANGED aux

(* ================================ app_main ============================ *)
\* steps of app_main that can fail for lack of resources
BootFaults == IF env.faults > 0 THEN {"none", "init", "wfm_init"} ELSE {"none"}

\* app_main up to the connection handling: the init steps under
\* END_IF_ERROR, load the stored credentials, wfm_init, then AP setup mode
\* without credentials, else wfm_first_connect
app_main ==
    /\ At(MainTask, "boot")
    /\ \E f \in BootFaults :
         /\ env' = IF f = "none" THEN env ELSE [env EXCEPT !.faults = @ - 1]
         /\ CASE f = "init" ->
                   /\ Goto(MainTask, "m_loop")
                   /\ app' = [app EXCEPT !.init_success = FALSE]
                   /\ hist' = [hist EXCEPT !.route = "failure"]
                   /\ UNCHANGED wfm
              [] f = "wfm_init" ->
                   /\ Goto(MainTask, "m_loop")
                   /\ app' = [app EXCEPT !.init_success = FALSE]
                   /\ hist' = [hist EXCEPT !.route = "failure"]
                   /\ wfm' = [wfm_init(nvs, env.cfg) EXCEPT !.inited = FALSE]
              [] OTHER ->
                   /\ wfm' = wfm_init(nvs, env.cfg)
                   /\ IF Len(nvs) = 0
                      THEN Call(MainTask, "ap_entry", "m_ap_ret")
                      ELSE Call(MainTask, "fc_entry", "m_fc_ret")
                   /\ UNCHANGED <<app, hist>>
    /\ UNCHANGED <<nvs, eg, wmask, bits, drv, evq, evt, ahead, loc>>
    /\ UNCHANGED aux

\* m_ap_ret without END_IF_ERROR and without the test of the server handle
m_ap_ret_unchecked ==
    /\ At(MainTask, "m_ap_ret")
    /\ app' = [app EXCEPT !.webserver = TRUE]
    /\ hist' = [hist EXCEPT !.route = "ap"]
    /\ Goto(MainTask, "m_loop")
    /\ SetLoc(MainTask, LocInit)
    /\ UNCHANGED <<nvs, wfm, eg, wmask, bits, drv, evq, evt, ahead, env>>
    /\ UNCHANGED aux

\* after wfm_start_ap at boot: END_IF_ERROR on its result, start_webserver
\* (NULL fails the initialisation), then the main loop
m_ap_ret ==
    /\ At(MainTask, "m_ap_ret")
    /\ \E null \in (IF env.faults > 0 THEN BOOLEAN ELSE {FALSE}) :
         IF loc[MainTask].ret # ESP_OK
         THEN /\ app' = [app EXCEPT !.init_success = FALSE]
              /\ hist' = [hist EXCEPT !.route = "failure"]
              /\ UNCHANGED env
         ELSE IF null
         THEN /\ app' = [app EXCEPT !.init_success = FALSE]
              /\ hist' = [hist EXCEPT !.route = "failure"]
              /\ env' = [env EXCEPT !.faults = @ - 1]
         ELSE /\ app' = [app EXCEPT !.webserver = TRUE]
              /\ hist' = [hist EXCEPT !.route = "ap"]
              /\ UNCHANGED env
    /\ Goto(MainTask, "m_loop")
    /\ SetLoc(MainTask, LocInit)
    /\ UNCHANGED <<nvs, wfm, eg, wmask, bits, drv, evq, evt, ahead>>
    /\ UNCHANGED aux

\* m_fc_ret where the MQTT client is started whatever wfm_first_connect
\* returned
m_fc_ret_always ==
    /\ At(MainTask, "m_fc_ret")
    /\ app' = [app EXCEPT !.app_initialized = TRUE, !.mqm_started = TRUE]
    /\ hist' = [hist EXCEPT !.fcAtt = <<>>, !.fcRet = "none", !.sig = {},
                            !.route = IF loc[MainTask].ret = ESP_OK THEN "sta" ELSE "sta_fail"]
    /\ Goto(MainTask, "m_loop")
    /\ SetLoc(MainTask, LocInit)
    /\ UNCHANGED <<nvs, wfm, eg, wmask, bits, drv, evq, evt, ahead, env>>
    /\ UNCHANGED aux

\* what mqm_init && mqm_start(15000) and init_web_app can give
MqttOutcomes ==
    {"ok", "mqtt_fail"} \cup (IF env.faults > 0 THEN {"mqm_init_fail", "web_app_fail"} ELSE {})

\* after wfm_first_connect: on success mqm_init / mqm_start / init_web_app,
\* whose failure clears init_success (a start that timed out leaves the
\* client running); on failure only the LCD message, then the main loop
m_fc_ret ==
    /\ At(MainTask, "m_fc_ret")
    /\ IF loc[MainTask].ret = ESP_OK
       THEN \E out \in MqttOutcomes :
              /\ app' = CASE out = "ok" ->
                               [app EXCEPT !.app_initialized = TRUE, !.mqm_started = TRUE,
                                           !.mqm_connected = TRUE]
                          [] out = "mqtt_fail" ->
                               [app EXCEPT !.init_success = FALSE, !.mqm_started = TRUE]
                          [] out = "mqm_init_fail" ->
                               [app EXCEPT !.init_success = FALSE]
                          [] OTHER ->
                               [app EXCEPT !.init_success = FALSE, !.mqm_started = TRUE,
                                           !.mqm_connected = TRUE]
              /\ env' = IF out \in {"mqm_init_fail", "web_app_fail"}
                        THEN [env EXCEPT !.faults = @ - 1] ELSE env
              /\ hist' = [hist EXCEPT !.fcAtt = <<>>, !.fcRet = "none", !.sig = {},
                                      !.route = IF out = "ok" THEN "sta" ELSE "failure"]
       ELSE /\ app' = app
            /\ env' = env
            /\ hist' = [hist EXCEPT !.fcAtt = <<>>, !.fcRet = "none", !.sig = {},
                                    !.route = "sta_fail"]
    /\ Goto(MainTask, "m_loop")
    /\ SetLoc(MainTask, LocInit)
    /\ UNCHANGED <<nvs, wfm, eg, wmask, bits, drv, evq, evt, ahead>>
    /\ UNCHANGED aux

\* gpio_interrupt_handler recognises a triple press (the flag is polled by the
\* main loop only, so the press is taken when the main task is there)
TriplePress ==
    /\ TimePasses
    /\ env.presses > 0
    /\ pc[MainTask] = "m_loop"
    /\ app' = [app EXCEPT !.wifi_triple_pressed = TRUE]
    /\ env' = [env EXCEPT !.presses = @ - 1]
    /\ UNCHANGED <<nvs, wfm, eg, wmask, bits, drv, evq, evt, ahead, pc, stack, loc, hist>>
    /\ UNCHANGED aux

\* gpio_interrupt_handler recognises a long press
LongPress ==
    /\ TimePasses
    /\ env.presses > 0
    /\ pc[MainTask] = "m_loop"
    /\ app' = [app EXCEPT !.wifi_reset_pressed = TRUE]
    /\ env' = [env EXCEPT !.presses = @ - 1]
    /\ UNCHANGED <<nvs, wfm, eg, wmask, bits, drv, evq, evt, ahead, pc, stack, loc, hist>>
    /\ UNCHANGED aux

\* m_reset without nvs_flash_erase()
m_reset_keep ==
    /\ At(MainTask, "m_loop")
    /\ app.init_success
    /\ app.wifi_reset_pressed
    /\ app' = [app EXCEPT !.wifi_reset_pressed = FALSE]
    /\ hist' = [hist EXCEPT !.route = "reset", !.nvs0 = nvs]
    /\ Goto(MainTask, "m_restart")
    /\ UNCHANGED <<nvs, wfm, eg, wmask, bits, drv, evq, evt, ahead, loc, env>>
    /\ UNCHANGED aux

\* main loop, if (init_success) and wifi_reset_pressed: the flag is cleared
\* and nvs_flash_erase() erases the partition that holds the credentials
m_reset ==
    /\ At(MainTask, "m_loop")
    /\ app.init_success
    /\ app.wifi_reset_pressed
    /\ app' = [app EXCEPT !.wifi_reset_pressed = FALSE]
    /\ nvs' = <<>>
    /\ hist' = [hist EXCEPT !.route = "reset", !.nvs0 = nvs]
    /\ Goto(MainTask, "m_restart")
    /\ UNCHANGED <<wfm, eg, wmask, bits, drv, evq, evt, ahead, loc, env>>
    /\ UNCHANGED aux

\* main loop: after "Restarting..." on the LCD, esp_restart()
m_restart ==
    /\ At(MainTask, "m_restart")
    /\ Restart
    /\ UNCHANGED aux

\* main loop, else if wifi_triple_pressed: switch to AP mode, first
\* wfm_full_driver_stop
m_loop ==
    /\ At(MainTask, "m_loop")
    /\ app.init_success
    /\ ~app.wifi_reset_pressed
    /\ app.wifi_triple_pressed
    /\ app' = [app EXCEPT !.wifi_triple_pressed = FALSE]
    /\ hist' = [hist EXCEPT !.route = "triple", !.nvs0 = nvs]
    /\ Call(MainTask, "fs_entry", "m_fs_ret")
    /\ UNCHANGED <<nvs, wfm, eg, wmask, bits, drv, evq, evt, ahead, loc, env>>
    /\ UNCHANGED aux

\* main loop: after vTaskDelay(1000), wfm_start_ap
m_fs_ret ==
    /\ At(MainTask, "m_fs_ret")
    /\ Call(MainTask, "ap_entry", "m_tp_ret")
    /\ SetLoc(MainTask, LocInit)
    /\ UNCHANGED <<nvs, wfm, eg, wmask, bits, drv, evq, evt, ahead, app, env, hist>>
    /\ UNCHANGED aux

\* main loop: the result of wfm_start_ap is not looked at; start_webserver,
\* whose result is not looked at either, then the loop goes on
m_tp_ret ==
    /\ At(MainTask, "m_tp_ret")
    /\ \E null \in (IF env.faults > 0 THEN BOOLEAN ELSE {FALSE}) :
         /\ app' = IF null THEN app ELSE [app EXCEPT !.webserver = TRUE]
         /\ env' = IF null THEN [env EXCEPT !.faults = @ - 1] ELSE env
    /\ hist' = [hist EXCEPT !.route = IF loc[MainTask].ret = ESP_OK THEN "triple_done"
                                      ELSE "triple_noap"]
    /\ Goto(MainTask, "m_loop")
    /\ SetLoc(MainTask, LocInit)
    /\ UNCHANGED <<nvs, wfm, eg, wmask, bits, drv, evq, evt, ahead>>
    /\ UNCHANGED aux

(* ============================ the whole program ======================= *)
EventTask ==
    \/ on_STA_START
    \/ on_STA_START_connect
    \/ on_STA_DISCONNECTED
    \/ on_STA_DISCONNECTED_spawn
    \/ on_STA_STOP
    \/ on_SCAN_DONE
    \/ on_GOT_IP
    \/ on_GOT_IP_shown

Driver ==
    \/ DrvConnected
    \/ DrvConnectFailed
    \/ DrvLinkLost

Manager(t) ==
    \/ wfm_scan_sync(t)
    \/ ss_wait_started(t)
    \/ ss_scanning(t)
    \/ wfm_first_connect(t)
    \/ fc_scanned(t)
    \/ st_wait(t)
    \/ fc_wait(t)
    \/ fc_stopwait(t)
    \/ wfm_start_ap(t)
    \/ ap_wait(t)
    \/ ap_shown(t)
    \/ wfm_full_driver_stop(t)
    \/ fs_wait(t)
    \/ fs_shown(t)
    \/ wfm_reconnect(t)
    \/ rcn_round(t)
    \/ rcn_scanned(t)
    \/ rcn_scanfail(t)
    \/ rcn_wait(t)
    \/ rcn_failed(t)
    \/ wfm_change_network(t)
    \/ cnw_apply(t)
    \/ cnw_wait1(t)
    \/ cnw_wait2(t)
    \/ cnw_rc_ret(t)

App ==
    \/ app_main
    \/ m_ap_ret
    \/ m_fc_ret
    \/ m_reset
    \/ m_restart
    \/ m_loop
    \/ m_fs_ret
    \/ m_tp_ret
    \/ \E t \in CnTasks : change_wifi_network_task(t) \/ cn_ret(t) \/ cn_poll(t)
    \/ \E t \in RcTasks : wfm_reconnect_task(t) \/ rc_done(t)

Stimuli ==
    \/ TriplePress
    \/ LongPress
    \/ change_wifi_network_handler

Next ==
    \/ EventTask
    \/ Driver
    \/ \E t \in Tasks : Manager(t)
    \/ App
    \/ Stimuli

Spec == Init /\ [][Next]_vars

(* ================== the network-switch command and MQTT =============== *)
(* The whole program, where in addition the MQTT session of the running    *)
(* client can break and be re-established while commands are served.       *)
InitCmd ==
    /\ nvs \in BootLists
    /\ \E sc \in Scenarios, air \in SUBSET SSIDs :
         env = [EnvInit(sc, air) EXCEPT !.faults = sc.faults,
                                        !.flips = IF sc.cmds > 0 THEN MaxFlips ELSE 0]
    /\ Volatile(wfm, eg, wmask, bits, drv, evq, evt, ahead, pc, stack, loc, app, hist)
    /\ AuxIdle

NextCmd ==
    \/ EventTask
    \/ Driver
    \/ \E t \in Tasks : Manager(t)
    \/ App
    \/ Stimuli
    \/ app_on_DISCONNECTED
    \/ app_on_CONNECTED

SpecCmd == InitCmd /\ [][NextCmd]_vars

(* ================ a link loss while a command is served =============== *)
(* The whole program where the link can be lost and a network-switch       *)
(* command can arrive in the same run.                                      *)
InitMix ==
    /\ nvs = <<Cred(NetNames[1], "pw")>>
    /\ env = EnvInit([drops |-> MaxDrops, presses |-> 0, cmds |-> MaxCmds, calls |-> 0],
                     {NetNames[1]})
    /\ Volatile(wfm, eg, wmask, bits, drv, evq, evt, ahead, pc, stack, loc, app, hist)
    /\ AuxIdle

\* the steps of the manager that a device without buttons pressed and with a
\* stored network in range takes
ManagerMix(t) ==
    \/ wfm_scan_sync(t)
    \/ ss_wait_started(t)
    \/ ss_scanning(t)
    \/ wfm_first_connect(t)
    \/ fc_scanned(t)
    \/ st_wait(t)
    \/ fc_wait(t)
    \/ fc_stopwait(t)
    \/ wfm_reconnect(t)
    \/ rcn_round(t)
    \/ rcn_scanned(t)
    \/ rcn_scanfail(t)
    \/ rcn_wait(t)
    \/ rcn_failed(t)
    \/ wfm_change_network(t)
    \/ cnw_apply(t)
    \/ cnw_wait1(t)
    \/ cnw_wait2(t)
    \/ cnw_rc_ret(t)

NextMix ==
    \/ EventTask
    \/ Driver
    \/ \E t \in Tasks : ManagerMix(t)
    \/ app_main
    \/ m_fc_ret
    \/ \E t \in CnTasks : change_wifi_network_task(t) \/ cn_ret(t) \/ cn_poll(t)
    \/ \E t \in RcTasks : wfm_reconnect_task(t) \/ rc_done(t)
    \/ change_wifi_network_handler

SpecMix == InitMix /\ [][NextMix]_vars

(* ============ the topic handlers on the task of the MQTT client ======== *)
(* mqm_event_core calls the handler of the table of app_main for each      *)
(* message, on the task of the esp-mqtt client, as soon as the session is  *)
(* connected.  Before init_web_app the pointers wfm and mqm of the command *)
(* layer are NULL.                                                          *)
\* a message is delivered to the client, which is outside a handler
Delivered ==
    /\ TimePasses
    /\ app.mqm_started /\ app.mqm_connected
    /\ drv.link = "connected"
    /\ env.cmds > 0
    /\ pc[MqttTask] = "off"

\* scan_wifi_networks: wfm_scan_sync on the calling task (with wfm == NULL it
\* returns ESP_ERR_INVALID_ARG at once and "[]" is published)
scan_wifi_networks ==
    /\ Delivered
    /\ IF app.app_initialized
       THEN Call(MqttTask, "ss_entry", "scan_ret")
       ELSE UNCHANGED <<pc, stack>>
    /\ env' = [env EXCEPT !.cmds = @ - 1]
    /\ UNCHANGED <<nvs, wfm, eg, wmask, bits, drv, evq, evt, ahead, loc, app, hist>>
    /\ UNCHANGED aux

\* scan_wifi_networks after wfm_scan_sync: "[]" on failure, else the list is
\* published and LCD_show_lines("Wi-Fi scan done") sleeps
scan_ret ==
    /\ At(MqttTask, "scan_ret")
    /\ IF loc[MqttTask].ret = ESP_OK
       THEN Goto(MqttTask, "scan_shown")
       ELSE pc' = [pc EXCEPT ![MqttTask] = "off"] /\ UNCHANGED stack
    /\ hist' = [hist EXCEPT !.pub = publish_q1(IF loc[MqttTask].ret = ESP_OK
                                                THEN "scan result" ELSE "[]")]
    /\ SetLoc(MqttTask, LocInit)
    /\ UNCHANGED <<nvs, wfm, eg, wmask, bits, drv, evq, evt, ahead, app, env>>
    /\ UNCHANGED aux

\* the LCD sleep of a handler is over and the handler returns
handler_shown ==
    /\ At(MqttTask, "scan_shown") \/ At(MqttTask, "lcd_show")
    /\ pc' = [pc EXCEPT ![MqttTask] = "off"]
    /\ UNCHANGED <<nvs, wfm, eg, wmask, bits, drv, evq, evt, ahead, stack, loc, app, env, hist>>
    /\ UNCHANGED aux

\* OTA_update: LCD_show_lines("Starting OTA update"), then perform_ota
OTA_update ==
    /\ Delivered
    /\ pc' = [pc EXCEPT ![MqttTask] = "ota_show"]
    /\ env' = [env EXCEPT !.cmds = @ - 1]
    /\ UNCHANGED <<nvs, wfm, eg, wmask, bits, drv, evq, evt, ahead, stack, loc, app, hist>>
    /\ UNCHANGED aux

\* perform_ota: an empty URL or a failed esp_https_ota_begin ends it, else
\* the download loop begins
perform_ota ==
    /\ At(MqttTask, "ota_show")
    /\ \E begun \in BOOLEAN :
         /\ pc' = [pc EXCEPT ![MqttTask] = IF begun THEN "ota_download" ELSE "off"]
         /\ hist' = [hist EXCEPT !.pub = publish_q1(IF begun THEN "Download started"
                                                     ELSE "Begin failed")]
    /\ UNCHANGED <<nvs, wfm, eg, wmask, bits, drv, evq, evt, ahead, stack, loc, app, env>>
    /\ UNCHANGED aux

\* perform_ota after the loop of esp_https_ota_perform: esp_restart when
\* esp_https_ota_finish succeeds, else the failure is reported
ota_finish ==
    /\ At(MqttTask, "ota_download")
    /\ \/ Restart
       \/ /\ pc' = [pc EXCEPT ![MqttTask] = "off"]
          /\ hist' = [hist EXCEPT !.pub = publish_q1("OTA version updated failed")]
          /\ UNCHANGED <<wfm, eg, wmask, bits, drv, evq, evt, ahead, stack, loc, app>>
    /\ UNCHANGED <<nvs, env>>
    /\ UNCHANGED aux

\* LCD_display_text: LCD_show_lines sleeps on the calling task
LCD_display_text ==
    /\ Delivered
    /\ pc' = [pc EXCEPT ![MqttTask] = "lcd_show"]
    /\ env' = [env EXCEPT !.cmds = @ - 1]
    /\ UNCHANGED <<nvs, wfm, eg, wmask, bits, drv, evq, evt, ahead, stack, loc, app, hist>>
    /\ UNCHANGED aux

\* device_connection_test: publishes the fields of wfm->info; with wfm == NULL
\* the read faults (the device panics and reboots) or yields garbage
device_connection_test ==
    /\ Delivered
    /\ \/ /\ ~app.app_initialized
          /\ Restart
          /\ env' = [env EXCEPT !.cmds = @ - 1]
          /\ UNCHANGED nvs
       \/ /\ hist' = [hist EXCEPT !.pub = IF app.app_initialized
                                           THEN "device connection status" ELSE "none"]
          /\ env' = [env EXCEPT !.cmds = @ - 1]
          /\ UNCHANGED <<nvs, wfm, eg, wmask, bits, drv, evq, evt, ahead, pc, stack, loc, app>>
    /\ UNCHANGED aux

\* leds_toggle_handler: switches a LED
leds_toggle_handler ==
    /\ Delivered
    /\ env' = [env EXCEPT !.cmds = @ - 1]
    /\ UNCHANGED <<nvs, wfm, eg, wmask, bits, drv, evq, evt, ahead, pc, stack, loc, app, hist>>
    /\ UNCHANGED aux

\* change_wifi_network_handler before init_web_app: the task is created, its
\* wfm_change_network(NULL, ...) returns ESP_ERR_INVALID_ARG, it sleeps on the
\* LCD and ends
change_wifi_network_null ==
    /\ Delivered
    /\ ~app.app_initialized
    /\ FreeCn # {}
    /\ LET t == CHOOSE u \in FreeCn : TRUE
       IN pc' = [pc EXCEPT ![t] = "cn_null"]
    /\ env' = [env EXCEPT !.cmds = @ - 1]
    /\ UNCHANGED <<nvs, wfm, eg, wmask, bits, drv, evq, evt, ahead, stack, loc, app, hist>>
    /\ UNCHANGED aux

cn_null(t) ==
    /\ At(t, "cn_null")
    /\ pc' = [pc EXCEPT ![t] = "off"]
    /\ UNCHANGED <<nvs, wfm, eg, wmask, bits, drv, evq, evt, ahead, stack, loc, app, env, hist>>
    /\ UNCHANGED aux

InitTopic ==
    /\ nvs = <<Cred(NetNames[1], "pw")>>
    /\ env = [EnvInit([drops |-> 0, presses |-> 0, cmds |-> MaxCmds, calls |-> 0],
                      {NetNames[1]}) EXCEPT !.flips = MaxFlips]
    /\ Volatile(wfm, eg, wmask, bits, drv, evq, evt, ahead, pc, stack, loc, app, hist)
    /\ AuxIdle

NextTopic ==
    \/ EventTask
    \/ DrvConnected
    \/ DrvConnectFailed
    \/ \E t \in Tasks : ManagerMix(t)
    \/ app_main
    \/ m_fc_ret
    \/ \E t \in CnTasks : change_wifi_network_task(t) \/ cn_ret(t) \/ cn_poll(t) \/ cn_null(t)
    \/ \E t \in RcTasks : wfm_reconnect_task(t) \/ rc_done(t)
    \/ app_on_DISCONNECTED
    \/ app_on_CONNECTED
    \/ change_wifi_network_handler
    \/ change_wifi_network_null
    \/ scan_wifi_networks
    \/ scan_ret
    \/ handler_shown
    \/ OTA_update
    \/ perform_ota
    \/ ota_finish
    \/ LCD_display_text
    \/ device_connection_test
    \/ leds_toggle_handler

SpecTopic == InitTopic /\ [][NextTopic]_vars

(* ======================== the button and its flags ===================== *)
(* The level of the button pin changes, gpio_interrupt_handler runs on     *)
(* every edge and reads esp_timer_get_time(), here in whole seconds since  *)
(* boot; the loop of app_main polls the two flags.                         *)
MaxEdges == 8
MaxClock == 5
\* thresholds of gpio_interrupt_handler
LongPressMs == 5000
TripleGapUs == 3000000

\* esp_timer_get_time() at second t, in microseconds
UsOf(t) == t * 1000000

\* gpio_interrupt_handler without "click_count = 0" after the third click
IsrStep_norestart(i, level, now) ==
    LET pressed == level = 0 /\ i.last_level = 1
        released == level = 1 /\ i.last_level = 0
        press_time_ms == (now - i.press_start_time) \div 1000
        long == released /\ press_time_ms >= LongPressMs
        short == released /\ ~long
        cnt == IF now - i.last_release_time <= TripleGapUs
               THEN i.click_count + 1 ELSE 1
        triple == short /\ cnt >= 3
    IN  [isr |-> [last_level |-> level,
                  press_start_time |-> IF pressed THEN now ELSE i.press_start_time,
                  last_release_time |-> IF short THEN now ELSE i.last_release_time,
                  click_count |-> IF long THEN 0
                                  ELSE IF short THEN cnt
                                  ELSE i.click_count],
         released |-> released, long |-> long, triple |-> triple]

\* the body of gpio_interrupt_handler for the pin of the button: the statics
\* after it, and which flag it wrote
IsrStep(i, level, now) ==
    LET pressed == level = 0 /\ i.last_level = 1
        released == level = 1 /\ i.last_level = 0
        press_time_ms == (now - i.press_start_time) \div 1000
        long == released /\ press_time_ms >= LongPressMs
        short == released /\ ~long
        cnt == IF now - i.last_release_time <= TripleGapUs
               THEN i.click_count + 1 ELSE 1
        triple == short /\ cnt >= 3
    IN  [isr |-> [last_level |-> level,
                  press_start_time |-> IF pressed THEN now ELSE i.press_start_time,
                  last_release_time |-> IF short THEN now ELSE i.last_release_time,
                  click_count |-> IF long THEN 0
                                  ELSE IF short THEN (IF triple THEN 0 ELSE cnt)
                                  ELSE i.click_count],
         released |-> released, long |-> long, triple |-> triple]

\* an edge of the pin: gpio_interrupt_handler runs, whatever the tasks do
gpio_interrupt_handler ==
    /\ env.edges > 0
    /\ LET level == 1 - env.level
           r == IsrStep(app.isr, level, UsOf(app.now))
           b == app.btn
       IN  /\ app' = [app EXCEPT
                        !.isr = r.isr,
                        !.wifi_reset_pressed = IF r.long THEN TRUE ELSE @,
                        !.wifi_triple_pressed = IF r.triple THEN TRUE ELSE @,
                        !.btn = [rel |-> IF r.released
                                         THEN Append(b.rel, [at |-> app.now,
                                                             held |-> app.now - env.down_at])
                                         ELSE b.rel,
                                 nLong |-> b.nLong + (IF r.long THEN 1 ELSE 0),
                                 nTriple |-> b.nTriple + (IF r.triple THEN 1 ELSE 0)]]
           /\ env' = [env EXCEPT !.edges = @ - 1, !.level = level,
                                 !.down_at = IF level = 0 THEN app.now ELSE @]
    /\ UNCHANGED <<nvs, wfm, eg, wmask, bits, drv, evq, evt, ahead, pc, stack, loc, hist>>
    /\ UNCHANGED aux

\* a second passes on the timer
Tick ==
    /\ app.now < MaxClock
    /\ app' = [app EXCEPT !.now = @ + 1]
    /\ UNCHANGED <<nvs, wfm, eg, wmask, bits, drv, evq, evt, ahead, pc, stack, loc, env,
                   hist>>
    /\ UNCHANGED aux

\* a device without stored networks boots into the setup mode
InitButton ==
    /\ nvs = <<>>
    /\ env = [EnvInit([drops |-> 0, presses |-> 0, cmds |-> 0, calls |-> 0], {})
                EXCEPT !.edges = MaxEdges]
    /\ Volatile(wfm, eg, wmask, bits, drv, evq, evt, ahead, pc, stack, loc, app, hist)
    /\ AuxIdle

NextButton ==
    \/ gpio_interrupt_handler
    \/ Tick
    \/ \E t \in Tasks : \/ wfm_start_ap(t)
                        \/ ap_wait(t)
                        \/ ap_shown(t)
                        \/ wfm_full_driver_stop(t)
                        \/ fs_wait(t)
                        \/ fs_shown(t)
    \/ app_main
    \/ m_ap_ret
    \/ m_reset
    \/ m_restart
    \/ m_loop
    \/ m_fs_ret
    \/ m_tp_ret

SpecButton == InitButton /\ [][NextButton]_vars

(* ========================= the scheduler is fair ======================= *)
(* FreeRTOS runs every task that is ready: the event task, app_main and    *)
(* every task that executes the manager.  A delay of app_main ends however *)
(* busy the other tasks are, so a step of it that can be taken again and    *)
(* again is taken.  Nothing is assumed of the radio or of the user.         *)
\* the steps of the main task outside the manager
MainSteps ==
    \/ app_main
    \/ m_ap_ret
    \/ m_fc_ret
    \/ m_reset
    \/ m_restart
    \/ m_loop
    \/ m_fs_ret
    \/ m_tp_ret

Fair ==
    /\ WF_vars(EventTask)
    /\ SF_vars(MainSteps)
    /\ WF_vars(App)
    /\ \A t \in Tasks : WF_vars(Manager(t))

SpecFair == Init /\ [][Next]_vars /\ Fair

(* ===================== the event task falls silent ==================== *)
(* The program as above, except that from some moment on the default event *)
(* loop delivers nothing: what is posted is lost and no handler runs. The   *)
(* scheduler lets every task run that can.                                  *)
GoMute ==
    /\ ~env.mute
    /\ evt = "idle"
    /\ env' = [env EXCEPT !.mute = TRUE]
    /\ evq' = <<>>
    /\ UNCHANGED <<nvs, wfm, eg, wmask, bits, drv, evt, ahead, pc, stack, loc, app, hist>>
    /\ UNCHANGED aux

NextMute ==
    \/ EventTask
    \/ Driver
    \/ \E t \in Tasks : Manager(t)
    \/ App
    \/ Stimuli
    \/ GoMute
FairMute ==
    /\ WF_vars(EventTask)
    /\ WF_vars(App)
    /\ \A t \in Tasks : WF_vars(Manager(t))
SpecMute == Init /\ [][NextMute]_vars /\ FairMute

(* ========================= the interface model ======================== *)
(* The public functions of wifi_manager.h called by a client in any order  *)
(* after the boot sequence of app_main; the application calls some of them *)
(* in one order only and wfm_stop_ap not at all.                           *)
ApiEntries == {"ap_entry", "sa_entry", "fc_entry", "fs_entry"}
\* the configuration the client hands to wfm_init: NULL as app_main does, or
\* one with fewer reconnect rounds than the default
ApiCfgs == {NoCfg, Cfg(MaxConfigured)}

InitApi ==
    /\ nvs \in {l \in BootLists : Len(l) <= 1}
    /\ \E air \in SUBSET {NetNames[1]}, cfg \in ApiCfgs :
          env = [EnvInit(ApiScenario, air) EXCEPT !.cfg = cfg]
    /\ Volatile(wfm, eg, wmask, bits, drv, evq, evt, ahead, pc, stack, loc, app, hist)
    /\ AuxIdle

\* the client calls wfm_start_ap, wfm_stop_ap, wfm_first_connect or
\* wfm_full_driver_stop
api_call ==
    /\ At(MainTask, "m_loop")
    /\ env.calls > 0
    /\ \E f \in ApiEntries : Call(MainTask, f, "api_ret")
    /\ env' = [env EXCEPT !.calls = @ - 1]
    /\ UNCHANGED <<nvs, wfm, eg, wmask, bits, drv, evq, evt, ahead, loc, app, hist>>
    /\ UNCHANGED aux

\* the call returned
api_ret ==
    /\ At(MainTask, "api_ret")
    /\ Goto(MainTask, "m_loop")
    /\ SetLoc(MainTask, LocInit)
    /\ hist' = [hist EXCEPT !.fcAtt = <<>>, !.fcRet = "none", !.sig = {}]
    /\ UNCHANGED <<nvs, wfm, eg, wmask, bits, drv, evq, evt, ahead, app, env>>
    /\ UNCHANGED aux

ManagerApi(t) ==
    \/ wfm_scan_sync(t)
    \/ ss_wait_started(t)
    \/ ss_scanning(t)
    \/ wfm_first_connect(t)
    \/ fc_scanned(t)
    \/ sd_wait(t)
    \/ st_wait(t)
    \/ fc_wait(t)
    \/ fc_stopwait(t)
    \/ wfm_start_ap(t)
    \/ ap_wait(t)
    \/ ap_shown(t)
    \/ wfm_stop_ap(t)
    \/ sa_wait(t)
    \/ sa_shown(t)
    \/ wfm_full_driver_stop(t)
    \/ fs_wait(t)
    \/ fs_shown(t)
    \/ wfm_reconnect(t)
    \/ rcn_round(t)
    \/ rcn_scanned(t)
    \/ rcn_scanfail(t)
    \/ rcn_wait(t)
    \/ rcn_failed(t)

NextApi ==
    \/ EventTask
    \/ DrvConnected
    \/ DrvConnectFailed
    \/ \E t \in Tasks : ManagerApi(t)
    \/ app_main
    \/ m_ap_ret
    \/ m_fc_ret
    \/ api_call
    \/ api_ret
    \/ \E t \in RcTasks : wfm_reconnect_task(t) \/ rc_done(t)

SpecApi == InitApi /\ [][NextApi]_vars


(* ================================ properties ========================== *)
\* wfm_first_connect has returned and its caller has not yet continued
FcReturned == hist.fcRet # "none" /\ pc[MainTask] = "m_fc_ret"

\* the candidates tried are saved credentials whose name is in the scan, in
\* stored order, each at most once
FcOrder ==
    /\ \A k \in 1..Len(hist.fcAtt) :
         /\ hist.fcAtt[k] \in 1..Len(wfm.saved)
         /\ is_ssid_available(wfm, wfm.saved[hist.fcAtt[k]].ssid)
    /\ \A k \in 1..(Len(hist.fcAtt) - 1) : hist.fcAtt[k] < hist.fcAtt[k + 1]
    /\ Len(hist.fcAtt) <= Len(wfm.saved)

IssuesConnect(t) ==
    /\ pc'[t] \in {"rcn_wait", "cnw_wait1", "cnw_wait2"}
    /\ pc'[t] # pc[t] \/ loc'[t].i # loc[t].i
\* the event task issues the connect request of wfm_first_connect
HandlerConnects == evt = "connect_on_start" /\ evt' = "idle" /\ drv'.link = "connecting"

\* C3: a connect request is never issued while an earlier connection attempt
\* is still unresolved in the driver.
C3_OneAttemptInFlight ==
    [][(HandlerConnects \/ \E t \in Tasks : IssuesConnect(t)) =>
          drv.link # "connecting"]_vars

\* task t returns from wfm_change_network with a failure in this step
CnwLabels == {"cnw_entry", "cnw_apply", "cnw_wait1", "cnw_wait2", "cnw_rc_ret"}
CnwFails(t) == pc[t] \in CnwLabels /\ pc'[t] = "cn_ret" /\ loc'[t].ret # ESP_OK

\* C4: wfm_change_network returns a failure only when the station is connected
\* to the previous network or after wfm_reconnect was invoked, and never while
\* a connection attempt is still pending in the driver.
C4_SwitchOrRevert ==
    [][\A t \in CnTasks : CnwFails(t) =>
          /\ drv'.link # "connecting"
          /\ \/ wfm'.connected /\ drv'.link = "connected"
                               /\ drv'.lssid = loc[t].prev.ssid
             \/ pc[t] = "cnw_rc_ret"]_vars

\* C5: the reason wfm_change_network hands to its caller on a failure is the
\* one classified from the STA_DISCONNECTED event of the attempt on the new
\* network.
C5_ReasonOfNewNetwork ==
    [][\A t \in CnTasks :
          (pc[t] = "cnw_wait2" /\ pc'[t] \in {"rcn_entry", "cn_ret"}) =>
             hist.discBy = "cn_new"]_vars

\* the handler creates the reconnect task in this step
Spawns == \E t \in RcTasks : pc[t] = "off" /\ pc'[t] = "rc_delay"

\* C6: a STA_DISCONNECTED event raised while wfm_change_network,
\* wfm_full_driver_stop or wfm_start_ap was in progress never makes the
\* handler create the reconnect task.
C6_NoSpawnDuringManualOp ==
    [][Spawns => ~hist.discMan]_vars

\* C7: the mode field agrees with the radio: while it says AP the driver is
\* in access-point mode and no station link is in progress or up, and while
\* it says STA the driver is in station mode.
C7_ModeExclusive ==
    /\ wfm.mode = WFM_MODE_AP => drv.mode = "AP" /\ drv.link = "idle"
    /\ wfm.mode = WFM_MODE_STA => drv.mode = "STA"

\* wfm_stop_ap takes its first step / its last step
SaBegins == pc[MainTask] = "sa_entry" /\ pc'[MainTask] # "sa_entry"
SaEnds == pc[MainTask] = "sa_shown" /\ pc'[MainTask] # "sa_shown"
\* C8: called in AP mode, wfm_stop_ap stops the radio and, when it returns,
\* the driver is deinitialised, the AP netif destroyed and the mode NONE;
\* called in any other mode it returns ESP_OK and changes nothing.
C8_StopAp ==
    [][/\ SaBegins =>
            IF wfm.mode = WFM_MODE_AP
            THEN pc'[MainTask] = "sa_wait" /\ drv'.st = "stopped"
            ELSE /\ pc'[MainTask] = "api_ret"
                 /\ loc'[MainTask].ret = ESP_OK
                 /\ UNCHANGED <<nvs, wfm, eg, drv, evq>>
       /\ SaEnds =>
            /\ pc'[MainTask] = "api_ret"
            /\ loc'[MainTask].ret = ESP_OK
            /\ drv'.st = "deinit"
            /\ ~wfm'.ap_netif
            /\ wfm'.mode = WFM_MODE_NONE]_vars

\* wfm_full_driver_stop returns to its caller
FsReturns(t) == pc[t] = "fs_shown" /\ pc'[t] \in {"m_fs_ret", "api_ret"}
\* C9: when wfm_full_driver_stop returns, the mode is NONE, connected and
\* started are false and the CONNECTED, FAIL and STARTED bits are clear.
C9_AllCleared ==
    [][\A t \in Tasks : FsReturns(t) =>
          /\ wfm'.mode = WFM_MODE_NONE
          /\ ~wfm'.connected
          /\ ~wfm'.started
          /\ eg' \cap {WFM_BIT_CONNECTED, WFM_BIT_FAIL, WFM_BIT_STARTED} = {}]_vars

\* wfm_reconnect begins the attempt on a candidate / returns to its caller
RcnAttempts(t) ==
    /\ pc[t] \in {"rcn_scanned", "rcn_wait"}
    /\ pc'[t] = "rcn_wait"
    /\ pc[t] = "rcn_scanned" \/ loc'[t].i # loc[t].i
RcnReturns(t) ==
    /\ pc[t] \in {"rcn_scanned", "rcn_wait", "rcn_scanfail", "rcn_failed"}
    /\ pc'[t] \in {"rc_done", "cnw_rc_ret"}
\* C10: in a round of wfm_reconnect every attempt is on the next candidate
\* (the previously used network, then the saved credentials in stored order)
\* whose name is in the scan, the names skipped are absent from it;
\* wfm_reconnect returns ESP_OK when the attempt it waited for connected and
\* anything else only after the last candidate of the last round.
C10_ReconnectRounds ==
    [][\A t \in Tasks :
         /\ RcnAttempts(t) =>
               LET from == IF pc[t] = "rcn_scanned" THEN 0 ELSE loc[t].i + 1
                   k == loc'[t].i
               IN /\ k >= from
                  /\ is_ssid_available(wfm, RcCred(wfm, k).ssid)
                  /\ \A j \in from..(k - 1) :
                        ~is_ssid_available(wfm, RcCred(wfm, j).ssid)
                  /\ drv'.ssid = RcCred(wfm, k).ssid
         /\ RcnReturns(t) =>
               IF loc'[t].ret = ESP_OK
               THEN pc[t] = "rcn_wait" /\ WFM_BIT_CONNECTED \in WaitResult(t)
               ELSE /\ pc[t] = "rcn_failed"
                    /\ loc[t].attempt = MAX_RECONNECT_ATTEMPTS - 1]_vars

(* ==================== the handler of STA_DISCONNECTED ================= *)
(* wifi_event_handler on WIFI_EVENT_STA_DISCONNECTED with every reason the  *)
(* driver reports and with no event data, in any state of the flags it      *)
(* reads and writes.                                                        *)
MaxDiscEvents == 2
\* no event data (d == NULL)
NoData == "no_data"
\* wifi_err_reason_t, the cases of the switch and reasons outside it
WifiReasons == {"AUTH_FAIL", "AUTH_EXPIRE", "4WAY_HANDSHAKE_TIMEOUT", "ASSOC_EXPIRE",
                "NO_AP_FOUND", REASON_ASSOC_LEAVE, "BEACON_TIMEOUT", "HANDSHAKE_TIMEOUT",
                "AUTH_LEAVE", "CONNECTION_FAIL"}

InitDisc ==
    /\ nvs = <<>>
    /\ env = [EnvInit([drops |-> MaxDiscEvents, presses |-> 0, cmds |-> 0, calls |-> 0], {})
                EXCEPT !.cfg = NoCfg]
    /\ \E c, a, m \in BOOLEAN,
          l \in {WFM_DISC_NONE, WFM_DISC_WRONG_PASSWORD, WFM_DISC_NO_AP, WFM_DISC_OTHER} :
         wfm = [wfm_init(<<>>, NoCfg) EXCEPT !.connected = c, !.auto_reconnect = a,
                                              !.manual_stop = m, !.last_disc = l,
                                              !.started = TRUE, !.mode = WFM_MODE_STA]
    /\ eg \in {{WFM_BIT_STARTED}, {WFM_BIT_STARTED, WFM_BIT_CONNECTED},
                {WFM_BIT_STARTED, WFM_BIT_FAIL}}
    /\ wmask = [t \in Tasks |-> {}]
    /\ bits = [t \in Tasks |-> {}]
    /\ drv = [DrvInit EXCEPT !.st = "started"]
    /\ evq = <<>> /\ evt = "idle" /\ ahead = {}
    /\ pc = [t \in Tasks |-> IF t = MainTask THEN "m_loop" ELSE "off"]
    /\ stack = [t \in Tasks |-> <<>>]
    /\ loc = [t \in Tasks |-> LocInit]
    /\ app = AppInit /\ hist = HistInit
    /\ AuxIdle

\* the driver posts WIFI_EVENT_STA_DISCONNECTED
DrvDisconnected ==
    /\ env.drops > 0
    /\ \E r \in WifiReasons \cup {NoData} : evq' = Append(evq, EvDisc(r, Att("drop", 0)))
    /\ env' = [env EXCEPT !.drops = @ - 1]
    /\ UNCHANGED <<nvs, wfm, eg, wmask, bits, drv, evt, ahead, pc, stack, loc, app, hist>>
    /\ UNCHANGED aux

NextDisc ==
    \/ DrvDisconnected
    \/ on_STA_DISCONNECTED
    \/ on_STA_DISCONNECTED_spawn

SpecDisc == InitDisc /\ [][NextDisc]_vars

(* ========================= the scan list builder ====================== *)
(* The loop of wfm_scan_sync applied to the records of one scan: FillCount  *)
(* records of distinct names followed by up to MaxTail records that repeat  *)
(* names or bring new ones.                                                 *)
RECURSIVE SeqsUpTo(_, _)
SeqsUpTo(S, n) ==
    IF n = 0 THEN {<<>>}
    ELSE LET shorter == SeqsUpTo(S, n - 1)
         IN shorter \cup {Append(q, x) : q \in shorter, x \in S}
RawLists ==
    LET FillCounts == {0, WFM_SCAN_MAX - 1, WFM_SCAN_MAX}
        Fill(n) == [k \in 1..n |-> Rec(ToString(k), -60)]
        TailRecs == {Rec(s, r) : s \in {NoStr, "1", NetNames[1]}, r \in {-80, -40}}
    IN {Fill(n) \o tl : n \in FillCounts, tl \in SeqsUpTo(TailRecs, MaxTail)}

\* nothing else runs
WifiIdle ==
    /\ nvs = <<>>
    /\ env = EnvInit([drops |-> 0, presses |-> 0, cmds |-> 0, calls |-> 0], {})
    /\ Volatile(wfm, eg, wmask, bits, drv, evq, evt, ahead, pc, stack, loc, app, hist)

InitScan ==
    /\ WifiIdle
    /\ mqm = MqmZero /\ mq = MqInit /\ store = NoCall
    /\ \E l \in RawLists : raw = [list |-> l, built |-> FALSE]

\* wfm_scan_sync from esp_wifi_scan_get_ap_records on: build wfm->scan
scan_build ==
    /\ ~raw.built
    /\ wfm' = [wfm EXCEPT !.scan = BuildScan(raw.list, <<>>)]
    /\ raw' = [raw EXCEPT !.built = TRUE]
    /\ UNCHANGED <<nvs, eg, wmask, bits, drv, evq, evt, ahead, pc, stack, loc, app, env, hist,
                   mqm, mq, store>>

SpecScan == InitScan /\ [][scan_build]_vars

(* ========================= the credential store ======================= *)
(* The functions of nvs_memory.c as their callers use them: the POST       *)
(* handler of the provisioning page adds what the form holds, the           *)
(* change-network command adds or removes the name of its payload. The     *)
(* store starts with a list the same calls can have built.                  *)
\* replace_plus_with_space: every '+' becomes a blank
RECURSIVE replace_plus_with_space(_)
replace_plus_with_space(s) ==
    IF Len(s) = 0 THEN ""
    ELSE (IF SubSeq(s, 1, 1) = "+" THEN " " ELSE SubSeq(s, 1, 1))
         \o replace_plus_with_space(SubSeq(s, 2, Len(s)))

\* sscanf(buf, "ssid=%63[^&]&pass=%63s", ssid, pass): at most 63 bytes each
FORM_FIELD_MAX == 63

\* stored lists: empty, one entry, one below capacity, full
StoredLists ==
    {[k \in 1..n |-> Cred(ToString(k), "pw")] : n \in {0, 1, WFM_MAX_CREDS - 1, WFM_MAX_CREDS}}
\* names and secrets of a command payload, and fields of a submitted form
CmdNames == {NoStr, "1", "b", Rep("n", WFM_SSID_MAX), Rep("n", WFM_SSID_MAX) \o "x"}
CmdSecrets == {"pw2", Rep("s", WFM_PASS_MAX + 1)}
FormNames == {"1", "a+b", Rep("n", WFM_SSID_MAX + 1), Rep("m", FORM_FIELD_MAX + 1)}
FormSecrets == {"pw2", "p+w"}

InitStore ==
    /\ nvs \in StoredLists
    /\ env = EnvInit([drops |-> 0, presses |-> 0, cmds |-> 0, calls |-> 0], {})
    /\ Volatile(wfm, eg, wmask, bits, drv, evq, evt, ahead, pc, stack, loc, app, hist)
    /\ mqm = MqmZero /\ mq = MqInit /\ raw = NoRaw
    /\ store = [NoCall EXCEPT !.left = MaxStoreOps]

StoreCall(op, ssid, pass) == [op |-> op, ssid |-> ssid, pass |-> pass, left |-> store.left - 1]
StoreOnly ==
    UNCHANGED <<wfm, eg, wmask, bits, drv, evq, evt, ahead, pc, stack, loc, app, env, hist,
                mqm, mq, raw>>

\* set_post_handler: parse the form, replace '+', add to the store
set_post_handler ==
    /\ store.left > 0
    /\ \E fs \in FormNames, fp \in FormSecrets :
         LET ssid == replace_plus_with_space(Cut(fs, FORM_FIELD_MAX))
             pass == replace_plus_with_space(Cut(fp, FORM_FIELD_MAX))
         IN /\ nvs' = add_wifi_creds(nvs, ssid, pass)
            /\ store' = StoreCall("add", ssid, pass)
    /\ StoreOnly

\* add_wifi_creds_to_NVS_memory(ssid, pass) of change_wifi_network_task
add_wifi_creds_to_NVS_memory ==
    /\ store.left > 0
    /\ \E ssid \in CmdNames, pass \in CmdSecrets :
         /\ nvs' = add_wifi_creds(nvs, ssid, pass)
         /\ store' = StoreCall("add", ssid, pass)
    /\ StoreOnly

\* remove_wifi_creds_from_NVS_memory(ssid) of change_wifi_network_task
remove_wifi_creds_from_NVS_memory ==
    /\ store.left > 0
    /\ \E ssid \in CmdNames :
         /\ nvs' = remove_wifi_creds(nvs, ssid)
         /\ store' = StoreCall("remove", ssid, "")
    /\ StoreOnly

NextStore ==
    \/ set_post_handler
    \/ add_wifi_creds_to_NVS_memory
    \/ remove_wifi_creds_from_NVS_memory

SpecStore == InitStore /\ [][NextStore]_vars

(* ========================= the MQTT manager =========================== *)
(* The public functions of mqtt_manager.h called by one task in any order, *)
(* and the events the esp-mqtt client task hands to mqm_event_handler. The *)
(* client task runs one handler at a time; the calling task runs           *)
(* concurrently with it. The same task also sets up and deinitialises the  *)
(* context of the Wi-Fi manager, whose driver it never starts.             *)
ESP_ERR_INVALID_ARG == "ESP_ERR_INVALID_ARG"
ESP_ERR_INVALID_STATE == "ESP_ERR_INVALID_STATE"

Entry(t, f) == [topic |-> t, handler |-> f]
\* what the client of the manager supplies: callbacks or none, and a table
MqCbs == {[on_status |-> b, on_message |-> b, publish_when_client_connected |-> b] :
            b \in BOOLEAN}
MqTables ==
    {<<>>,
     <<Entry("A", "hA"), Entry("B", "hB")>>,
     <<Entry(NullPtr, "h0"), Entry("A", NullPtr), Entry("A", "hA2"),
       Entry(Rep("t", MQM_MAX_TOPIC - 1), "hT")>>}
MqTimeouts == {0, MQM_DEINIT_STOP_MS}
\* what the broker sends
MsgTopics == {"A", "C", Rep("t", MQM_MAX_TOPIC - 1) \o "x"}
MsgPayloads == {"on", Rep("p", MQM_MAX_PAYLOAD)}

Do(op, arg) == [op |-> op, arg |-> arg]
Handle(h) == IF h THEN "handle" ELSE NullPtr
\* mqm_status(mqm, msg, client_status, true)
mqm_status(m, code) ==
    <<Do("mqm_status", code)>> \o
    (IF m.cbs.on_status THEN <<Do("on_status", code)>> ELSE <<>>)

\* the switch of on_mqtt_status on client_status, after LCD_show_lines
StatusLeds(u, code) ==
    CASE code \in {"MQM_CONNECTING", "MQM_DISCONNECTING"} -> [u EXCEPT !.yellow = "blink"]
      [] code = "MQM_CONNECTED" -> [u EXCEPT !.yellow = "on", !.green = "on"]
      [] code = "MQM_DISCONNECTED" -> [u EXCEPT !.yellow = "off"]
      [] code = "MQM_ERROR" -> [u EXCEPT !.red = "on", !.yellow = "off"]
      [] OTHER -> u

\* on_mqtt_status(status, client_status): nothing without the initialisation,
\* nothing when client_status differs from prev_status, else the text on the
\* display (named here by its status code) and the LEDs
on_mqtt_status(u, code) ==
    IF ~u.initialized THEN u
    ELSE IF u.prev_status # code THEN u
    ELSE StatusLeds([u EXCEPT !.lcd = code], code)

\* the calls of the on_status callback among `calls`, made in order
RECURSIVE Shown(_, _)
Shown(u, calls) ==
    IF calls = <<>> THEN u
    ELSE Shown(IF Head(calls).op = "on_status"
               THEN [on_mqtt_status(u, Head(calls).arg) EXCEPT !.last = Head(calls).arg]
               ELSE u,
               Tail(calls))

InitMqm ==
    /\ WifiIdle
    /\ raw = NoRaw
    /\ store = NoCall
    /\ mqm = MqmZero
    /\ mq = [MqInit EXCEPT !.left = MaxMqCalls, !.evs = MaxMqEvents]

\* the calling task is outside the manager and calls f with arguments a
MqCallable == mq.pc = "idle" /\ mq.left > 0
Called(f, a) == [mq EXCEPT !.left = @ - 1, !.op = f, !.arg = a, !.did = <<>>, !.el = 0,
                           !.ret = "none"]
\* abort() of a failed ESP_ERROR_CHECK: the device reboots
MqAbort(f, a) ==
    /\ mqm' = MqmZero
    /\ mq' = [MqInit EXCEPT !.left = mq.left - 1, !.evs = mq.evs, !.op = f, !.arg = a,
                            !.ret = "abort"]

\* mqm_init on a context that is not in use
mqm_init ==
    /\ MqCallable
    /\ ~mqm.initialized
    /\ \E uri \in BOOLEAN, cbs \in MqCbs, table \in MqTables :
         IF ~uri
         THEN /\ mq' = [Called("mqm_init", <<uri>>) EXCEPT !.ret = ESP_ERR_INVALID_ARG]
              /\ UNCHANGED mqm
         ELSE /\ mqm' = [MqmZero EXCEPT !.cbs = cbs, !.table = table, !.eg = TRUE,
                                        !.client = TRUE, !.initialized = TRUE]
              /\ mq' = [Called("mqm_init", <<uri>>) EXCEPT !.ret = ESP_OK, !.bits = {},
                                                          !.cli = "stopped"]
    /\ UNCHANGED <<wifi, raw, store>>

\* mqm_start without xEventGroupClearBits before the client is started
mqm_start_noclear ==
    /\ MqCallable
    /\ \E t \in MqTimeouts :
         IF ~mqm.initialized
         THEN /\ mq' = [Called("mqm_start", <<t>>) EXCEPT !.ret = ESP_ERR_INVALID_STATE]
              /\ UNCHANGED mqm
         ELSE IF mq.cli # "stopped"
         THEN MqAbort("mqm_start", <<t>>)
         ELSE /\ mqm' = [mqm EXCEPT !.started = TRUE]
              /\ mq' = [Called("mqm_start", <<t>>) EXCEPT
                          !.raised = {},
                          !.cli = "connecting",
                          !.did = <<Do("esp_mqtt_client_start", Handle(mqm.client))>>,
                          !.tmo = IF t # 0 THEN t ELSE MQM_START_DEFAULT_MS,
                          !.pc = "start_wait"]
    /\ UNCHANGED <<wifi, raw, store>>

\* mqm_start up to the wait; esp_mqtt_client_start fails on a client that
\* runs already
mqm_start ==
    /\ MqCallable
    /\ \E t \in MqTimeouts :
         IF ~mqm.initialized
         THEN /\ mq' = [Called("mqm_start", <<t>>) EXCEPT !.ret = ESP_ERR_INVALID_STATE]
              /\ UNCHANGED mqm
         ELSE IF mq.cli # "stopped"
         THEN MqAbort("mqm_start", <<t>>)
         ELSE /\ mqm' = [mqm EXCEPT !.started = TRUE]
              /\ mq' = [Called("mqm_start", <<t>>) EXCEPT
                          !.bits = @ \ {MQM_BIT_CONNECTED, MQM_BIT_FAIL},
                          !.raised = {},
                          !.cli = "connecting",
                          !.did = <<Do("esp_mqtt_client_start", Handle(mqm.client))>>,
                          !.tmo = IF t # 0 THEN t ELSE MQM_START_DEFAULT_MS,
                          !.pc = "start_wait"]
    /\ UNCHANGED <<wifi, raw, store>>

\* the wait of mqm_start for CONNECTED | FAIL ends, by a bit or by the timeout
start_wait ==
    /\ mq.pc = "start_wait"
    /\ LET got == mq.bits \cap {MQM_BIT_CONNECTED, MQM_BIT_FAIL}
       IN IF MQM_BIT_CONNECTED \in got
          THEN /\ mqm' = [mqm EXCEPT !.connected = TRUE]
               /\ mq' = [mq EXCEPT !.bits = @ \ {MQM_BIT_CONNECTED, MQM_BIT_FAIL},
                                   !.ret = ESP_OK, !.pc = "idle"]
          ELSE /\ mq' = [mq EXCEPT !.bits = @ \ got,
                                   !.el = IF got = {} THEN mq.tmo ELSE @,
                                   !.did = @ \o mqm_status(mqm, "MQM_ERROR"),
                                   !.ui = Shown(@, mqm_status(mqm, "MQM_ERROR")),
                                   !.ret = ESP_FAIL, !.pc = "idle"]
               /\ UNCHANGED mqm
    /\ UNCHANGED <<wifi, raw, store>>

\* mqm_stop(timeout) up to the call of esp_mqtt_client_stop; `back` is where
\* the caller continues
StopEntry(f, t, back) ==
    mq' = [Called(f, <<t>>) EXCEPT !.did = mqm_status(mqm, "MQM_DISCONNECTING"),
                                  !.ui = Shown(@, mqm_status(mqm, "MQM_DISCONNECTING")),
                                  !.tmo = IF t # 0 THEN t ELSE MQM_STOP_DEFAULT_MS,
                                  !.back = back, !.pc = "stopping", !.raised = {}]

mqm_stop ==
    /\ MqCallable
    /\ \E t \in MqTimeouts :
         IF ~mqm.started
         THEN mq' = [Called("mqm_stop", <<t>>) EXCEPT !.ret = ESP_OK]
         ELSE StopEntry("mqm_stop", t, "idle")
    /\ UNCHANGED <<mqm, wifi, raw, store>>

\* esp_mqtt_client_stop returns once the client task has ended: the task
\* may or may not hand MQTT_EVENT_DISCONNECTED to the handler before it ends
stop_client ==
    /\ mq.pc = "stopping"
    /\ mq.h = "idle"
    /\ \E d \in {b \in BOOLEAN : b => mq.cli # "stopped"} :
         /\ mqm' = [mqm EXCEPT !.connected = IF d THEN FALSE ELSE @]
         /\ mq' = [mq EXCEPT
                     !.cli = "stopped",
                     !.bits = IF d THEN @ \cup {MQM_BIT_FAIL} ELSE @,
                     !.raised = IF d THEN @ \cup {MQM_BIT_FAIL} ELSE @,
                     !.ev = IF d THEN [id |-> "DISCONNECTED", topic |-> "", data |-> ""]
                            ELSE @,
                     !.seen = IF d THEN mqm_status(mqm, "MQM_DISCONNECTED") ELSE @,
                     !.ui = IF d THEN Shown(@, mqm_status(mqm, "MQM_DISCONNECTED")) ELSE @,
                     !.did = @ \o <<Do("esp_mqtt_client_stop", Handle(mqm.client))>>,
                     !.pc = "stop_wait"]
    /\ UNCHANGED <<wifi, raw, store>>

\* the wait of mqm_stop for FAIL ends, by the bit or by the timeout
stop_wait ==
    /\ mq.pc = "stop_wait"
    /\ IF MQM_BIT_FAIL \in mq.bits
       THEN /\ mqm' = [mqm EXCEPT !.connected = FALSE, !.started = FALSE]
            /\ mq' = [mq EXCEPT !.bits = @ \ {MQM_BIT_FAIL},
                                !.did = @ \o mqm_status(mqm, "MQM_DISCONNECTED"),
                                !.ui = Shown(@, mqm_status(mqm, "MQM_DISCONNECTED")),
                                !.ret = ESP_OK, !.pc = mq.back]
       ELSE /\ mq' = [mq EXCEPT !.el = mq.tmo,
                                !.did = @ \o mqm_status(mqm, "MQM_ERROR"),
                                !.ui = Shown(@, mqm_status(mqm, "MQM_ERROR")),
                                !.ret = ESP_FAIL, !.pc = mq.back]
            /\ UNCHANGED mqm
    /\ UNCHANGED <<wifi, raw, store>>

\* mqm_deinit after the optional mqm_stop: destroy the client, delete the
\* event group, memset, and the status of the zeroed context
DeinitRest(q) ==
    /\ mqm' = MqmZero
    /\ mq' = [q EXCEPT
                !.did = @ \o (IF mqm.client
                              THEN <<Do("esp_mqtt_client_destroy", Handle(mqm.client))>>
                              ELSE <<>>)
                         \o (IF mqm.eg THEN <<Do("vEventGroupDelete", Handle(mqm.eg))>>
                                       ELSE <<>>)
                         \o mqm_status(MqmZero, "MQM_DISCONNECTED"),
                !.ui = Shown(@, mqm_status(MqmZero, "MQM_DISCONNECTED")),
                !.cli = "stopped", !.bits = {}, !.raised = {}, !.ret = "void",
                !.pc = "idle"]

mqm_deinit ==
    /\ MqCallable
    /\ IF mqm.started
       THEN StopEntry("mqm_deinit", MQM_DEINIT_STOP_MS, "dn_rest") /\ UNCHANGED mqm
       ELSE DeinitRest(Called("mqm_deinit", <<>>))
    /\ UNCHANGED <<wifi, raw, store>>

dn_rest ==
    /\ mq.pc = "dn_rest"
    /\ DeinitRest(mq)
    /\ UNCHANGED <<wifi, raw, store>>

\* mqm_publish_ex without the check of the connected flag
mqm_publish_unchecked ==
    /\ MqCallable
    /\ \E ctx \in BOOLEAN, topic \in {NullPtr, "A"}, msg \in {NullPtr, "on"}, ok \in BOOLEAN :
         LET q == Called("mqm_publish_ex", <<ctx, topic, msg>>)
         IN IF ~ctx \/ ~mqm.client \/ topic = NullPtr \/ msg = NullPtr
            THEN mq' = [q EXCEPT !.ret = ESP_ERR_INVALID_ARG]
            ELSE mq' = [q EXCEPT !.did = <<Do("esp_mqtt_client_publish", topic)>>,
                                 !.ret = IF ok THEN ESP_OK ELSE ESP_FAIL]
    /\ UNCHANGED <<mqm, wifi, raw, store>>

\* mqm_publish_ex(mqm, topic, msg, qos, retain); ctx tells that mqm is not
\* NULL, ok that esp_mqtt_client_publish returns a message id
mqm_publish_ex ==
    /\ MqCallable
    /\ \E ctx \in BOOLEAN, topic \in {NullPtr, "A"}, msg \in {NullPtr, "on"}, ok \in BOOLEAN :
         LET q == Called("mqm_publish_ex", <<ctx, topic, msg>>)
         IN IF ~ctx \/ ~mqm.client \/ topic = NullPtr \/ msg = NullPtr
            THEN mq' = [q EXCEPT !.ret = ESP_ERR_INVALID_ARG]
            ELSE IF ~mqm.connected
            THEN mq' = [q EXCEPT !.ret = ESP_ERR_INVALID_STATE]
            ELSE mq' = [q EXCEPT !.did = <<Do("esp_mqtt_client_publish", topic)>>,
                                 !.ret = IF ok THEN ESP_OK ELSE ESP_FAIL]
    /\ UNCHANGED <<mqm, wifi, raw, store>>

\* wfm_init(&wfm, &saved, NULL, &cbs) on a context that is not in use
api_wfm_init ==
    /\ MqCallable
    /\ ~wfm.inited
    /\ wfm' = wfm_init(nvs, NoCfg)
    /\ mq' = [Called("wfm_init", <<>>) EXCEPT !.ret = ESP_OK]
    /\ UNCHANGED <<nvs, eg, wmask, bits, drv, evq, evt, ahead, pc, stack, loc, app, env, hist,
                   mqm, raw, store>>

\* wfm_deinit: esp_wifi_stop, the wait of 1000 ms for STOPPED on wfm->eg,
\* esp_wifi_deinit, the interfaces, the handlers, the event group, memset.
\* configASSERT stops the device in xEventGroupWaitBits when the handle is NULL.
wfm_deinit ==
    /\ MqCallable
    /\ LET r1 == esp_wifi_stop(drv, FALSE)
           r2 == esp_wifi_deinit(r1.d)
           q == [Called("wfm_deinit", <<>>) EXCEPT
                   !.did = <<Do("esp_wifi_stop", "driver"),
                             Do("xEventGroupWaitBits", Handle(wfm.inited))>>]
       IN IF ~wfm.inited
          THEN /\ mq' = [q EXCEPT !.ret = "abort"]
               /\ drv' = r1.d
               /\ evq' = Post(evq, r1.ev)
               /\ UNCHANGED <<wfm, eg>>
          ELSE /\ mq' = [q EXCEPT
                           !.did = @ \o <<Do("esp_wifi_deinit", "driver")>>
                                    \o (IF wfm.ap_netif
                                        THEN <<Do("esp_netif_destroy", Handle(wfm.ap_netif))>>
                                        ELSE <<>>)
                                    \o (IF wfm.sta_netif
                                        THEN <<Do("esp_netif_destroy", Handle(wfm.sta_netif))>>
                                        ELSE <<>>)
                                    \o <<Do("esp_event_handler_instance_unregister",
                                            Handle(wfm.inited)),
                                         Do("vEventGroupDelete", Handle(wfm.inited))>>,
                           !.ret = "void"]
               /\ wfm' = WfmZero
               /\ eg' = {}
               /\ drv' = r2.d
               /\ evq' = Post(evq, r1.ev)
    /\ UNCHANGED <<nvs, wmask, bits, evt, ahead, pc, stack, loc, app, env, hist, mqm, raw, store>>

\* the client task has an event for the handler
MqEvent(id, t, d) == [mq EXCEPT !.evs = @ - 1, !.ev = [id |-> id, topic |-> t, data |-> d],
                                !.seen = <<>>]
MqCanHandle == mq.h = "idle" /\ mq.evs > 0

\* MQTT_EVENT_CONNECTED: the CONNECTED bit, connected = true, the status
on_CONNECTED ==
    /\ MqCanHandle
    /\ mq.cli = "connecting"
    /\ mqm' = [mqm EXCEPT !.connected = TRUE]
    /\ mq' = [MqEvent("CONNECTED", "", "") EXCEPT
                !.cli = "connected",
                !.bits = @ \cup {MQM_BIT_CONNECTED},
                !.raised = @ \cup {MQM_BIT_CONNECTED},
                !.seen = <<Do("connected", "true")>> \o mqm_status(mqm, "MQM_CONNECTED"),
                !.ui = Shown(@, mqm_status(mqm, "MQM_CONNECTED")),
                !.h = "sub", !.i = 1]
    /\ UNCHANGED <<wifi, raw, store>>

\* mqm_subscribe_all that gives up at the first subscription that fails
h_subscribe_giveup ==
    /\ mq.h = "sub"
    /\ IF Len(mqm.table) = 0
       THEN mq' = [mq EXCEPT !.seen = @ \o mqm_status(mqm, "MQM_ERROR"),
                             !.ui = Shown(@, mqm_status(mqm, "MQM_ERROR")), !.h = "pub"]
       ELSE \E r \in {"ok", "failed"} :
              mq' = [mq EXCEPT
                      !.seen = IF mqm.table[mq.i].topic = NullPtr THEN @
                               ELSE Append(@, Do("esp_mqtt_client_subscribe",
                                                 mqm.table[mq.i].topic \o ":" \o r)),
                      !.i = @ + 1,
                      !.h = IF mq.i = Len(mqm.table)
                               \/ (r = "failed" /\ mqm.table[mq.i].topic # NullPtr)
                            THEN "pub" ELSE "sub"]
    /\ UNCHANGED <<mqm, wifi, raw, store>>

\* mqm_subscribe_all: without a table the error status, else one entry of
\* the table per step; the result of esp_mqtt_client_subscribe is logged only
h_subscribe ==
    /\ mq.h = "sub"
    /\ IF Len(mqm.table) = 0
       THEN mq' = [mq EXCEPT !.seen = @ \o mqm_status(mqm, "MQM_ERROR"),
                             !.ui = Shown(@, mqm_status(mqm, "MQM_ERROR")), !.h = "pub"]
       ELSE \E r \in {"ok", "failed"} :
              mq' = [mq EXCEPT
                      !.seen = IF mqm.table[mq.i].topic = NullPtr THEN @
                               ELSE Append(@, Do("esp_mqtt_client_subscribe",
                                                 mqm.table[mq.i].topic \o ":" \o r)),
                      !.i = @ + 1,
                      !.h = IF mq.i = Len(mqm.table) THEN "pub" ELSE "sub"]
    /\ UNCHANGED <<mqm, wifi, raw, store>>

\* the publish_when_client_connected callback, if registered
h_publish ==
    /\ mq.h = "pub"
    /\ mq' = [mq EXCEPT !.seen = IF mqm.cbs.publish_when_client_connected
                                  THEN Append(@, Do("publish_when_client_connected", ""))
                                  ELSE @,
                        !.h = "idle"]
    /\ UNCHANGED <<mqm, wifi, raw, store>>

\* MQTT_EVENT_DISCONNECTED: the connection attempt failed or the session was
\* lost; the client goes on trying
on_DISCONNECTED ==
    /\ MqCanHandle
    /\ mq.cli \in {"connecting", "connected"}
    /\ mqm' = [mqm EXCEPT !.connected = FALSE]
    /\ mq' = [MqEvent("DISCONNECTED", "", "") EXCEPT
                !.cli = "connecting",
                !.bits = @ \cup {MQM_BIT_FAIL},
                !.raised = @ \cup {MQM_BIT_FAIL},
                !.seen = mqm_status(mqm, "MQM_DISCONNECTED"),
                !.ui = Shown(@, mqm_status(mqm, "MQM_DISCONNECTED"))]
    /\ UNCHANGED <<wifi, raw, store>>

\* the MQTT_EVENT_DATA branch without the break: every entry that matches
DispatchEvery(m, topic, data) ==
    LET t == Cut(topic, MQM_MAX_TOPIC - 1)
        p == Cut(data, MQM_MAX_PAYLOAD - 1)
        hit == SelectSeq(m.table, LAMBDA x : x.topic # NullPtr /\ x.topic = t
                                              /\ x.handler # NullPtr)
    IN (IF m.cbs.on_message THEN <<Do("on_message", t \o ":" \o p)>> ELSE <<>>) \o
       [k \in 1..Len(hit) |-> Do(hit[k].handler, p)]

\* what the MQTT_EVENT_DATA branch calls for a message: topic and payload
\* are cut to the buffers, on_message first, then the first entry of the
\* table whose topic compares equal
Dispatch(m, topic, data) ==
    LET t == Cut(topic, MQM_MAX_TOPIC - 1)
        p == Cut(data, MQM_MAX_PAYLOAD - 1)
        hit == {k \in 1..Len(m.table) : m.table[k].topic # NullPtr /\ m.table[k].topic = t}
        first == CHOOSE k \in hit : \A j \in hit : k <= j
    IN (IF m.cbs.on_message THEN <<Do("on_message", t \o ":" \o p)>> ELSE <<>>) \o
       (IF hit # {} /\ m.table[first].handler # NullPtr
        THEN <<Do(m.table[first].handler, p)>> ELSE <<>>)

on_DATA ==
    /\ MqCanHandle
    /\ mq.cli = "connected"
    /\ \E t \in MsgTopics, d \in MsgPayloads :
         mq' = [MqEvent("DATA", t, d) EXCEPT !.seen = Dispatch(mqm, t, d)]
    /\ UNCHANGED <<mqm, wifi, raw, store>>

NextMqm ==
    \/ mqm_init
    \/ mqm_start
    \/ start_wait
    \/ mqm_stop
    \/ stop_client
    \/ stop_wait
    \/ mqm_deinit
    \/ dn_rest
    \/ mqm_publish_ex
    \/ on_CONNECTED
    \/ h_subscribe
    \/ h_publish
    \/ on_DISCONNECTED
    \/ on_DATA
    \/ api_wfm_init
    \/ wfm_deinit
SpecMqm == InitMqm /\ [][NextMqm]_vars

(* ============================== properties ============================ *)
\* C11: every scan round of wfm_reconnect begins while the number of rounds
\* already made is below max_reconnect_attempts of the configuration stored
\* in the context by wfm_init
RcnRoundBegins(t) == pc[t] = "rcn_round" /\ pc'[t] = "ss_entry"
C11_RoundsWithinConfigured ==
    [][\A t \in Tasks : RcnRoundBegins(t) =>
                           loc[t].attempt < wfm.cfg.max_reconnect_attempts]_vars

\* C12: once the event task is silent, every wait that expires is followed
\* by the next statement of its function and not by a reboot, and every task
\* that is inside a manager operation or the change-network command task
\* comes to rest: the main task in its loop, the others deleted
Reboots == pc[MainTask] # "boot" /\ pc'[MainTask] = "boot"
AtRest(t) == pc[t] \in {"m_loop", "off"}
C12_TerminatesWhenMute ==
    /\ [][env.mute => ~Reboots]_vars
    /\ \A t \in Tasks : (env.mute /\ ~AtRest(t)) ~> AtRest(t)

\* C13: the list built from the raw records of a scan holds each name at
\* most once, and each entry holds the largest rssi among all the raw
\* records of its name
RawRssi(s) == {raw.list[i].rssi : i \in {j \in 1..Len(raw.list) : raw.list[j].ssid = s}}
C13_UniqueStrongest ==
    raw.built =>
        /\ \A j, k \in 1..Len(wfm.scan) : wfm.scan[j].ssid = wfm.scan[k].ssid => j = k
        /\ \A k \in 1..Len(wfm.scan) :
              /\ wfm.scan[k].rssi \in RawRssi(wfm.scan[k].ssid)
              /\ \A r \in RawRssi(wfm.scan[k].ssid) : r <= wfm.scan[k].rssi

\* C14 as stated: mqm_publish_ex called while not connected returns
\* ESP_ERR_INVALID_STATE without calling esp_mqtt_client_publish, and with a
\* missing context, topic or message it returns ESP_ERR_INVALID_ARG without
\* calling it
PublishCalled == mq'.op = "mqm_publish_ex" /\ mq'.left = mq.left - 1
ArgMissing == ~mq'.arg[1] \/ mq'.arg[2] = NullPtr \/ mq'.arg[3] = NullPtr
DataHandled == mq'.ev.id = "DATA" /\ mq'.evs = mq.evs - 1
\* the calls the statement allows for topic t and payload p as the handler
\* sees them
Allowed(t, p) ==
    LET hit == {k \in 1..Len(mqm.table) : mqm.table[k].topic = t}
        first == CHOOSE k \in hit : \A j \in hit : k <= j
    IN IF hit # {} /\ mqm.table[first].handler # NullPtr
       THEN <<Do(mqm.table[first].handler, p)>> ELSE <<>>
GenericFirst(s) ==
    /\ Len(SelectSeq(s, LAMBDA x : x.op = "on_message")) = IF mqm.cbs.on_message THEN 1 ELSE 0
    /\ mqm.cbs.on_message => s[1].op = "on_message"
C15_AsStated ==
    [][DataHandled =>
         /\ GenericFirst(mq'.seen)
         /\ SelectSeq(mq'.seen, LAMBDA x : x.op # "on_message")
              = Allowed(mq'.ev.topic, mq'.ev.data)]_vars
\* C15: the same with the topic of the message cut to MQM_MAX_TOPIC - 1
\* bytes before it is compared and the payload cut to MQM_MAX_PAYLOAD - 1
\* bytes before it is handed over
C15_DispatchCut ==
    [][DataHandled =>
         /\ GenericFirst(mq'.seen)
         /\ SelectSeq(mq'.seen, LAMBDA x : x.op # "on_message")
              = Allowed(Cut(mq'.ev.topic, MQM_MAX_TOPIC - 1),
                        Cut(mq'.ev.data, MQM_MAX_PAYLOAD - 1))]_vars
C15_Witness ==
    /\ mq.ev.id = "DATA" /\ mq.ev.topic = "A"
    /\ Len(mqm.table) = 2 /\ mqm.cbs.on_message
    /\ mq.seen = <<Do("on_message", "A:on"), Do("hA", "on")>>

\* C16: mqm_start returns ESP_OK only if the handler raised CONNECTED after
\* the client was started; when its wait ends without CONNECTED, by FAIL or
\* after timeout_ms (15000 when zero), it returns ESP_FAIL after the error
\* status; on a context that was never initialised it returns an error and
\* starts nothing
StartCalled == mq'.op = "mqm_start" /\ mq'.left = mq.left - 1
StartReturns == mq.pc = "start_wait" /\ mq'.pc = "idle"
C16_StartResult ==
    [][/\ StartReturns =>
            IF MQM_BIT_CONNECTED \in mq.bits
            THEN mq'.ret = ESP_OK /\ MQM_BIT_CONNECTED \in mq.raised
            ELSE /\ mq'.ret = ESP_FAIL
                 /\ mq'.did[Len(mq'.did)].arg = "MQM_ERROR"
                 /\ \/ MQM_BIT_FAIL \in mq.raised
                    \/ mq'.el = IF mq.arg[1] = 0 THEN MQM_START_DEFAULT_MS ELSE mq.arg[1]
       /\ StartCalled /\ ~mqm.initialized =>
            /\ mq'.ret = ESP_ERR_INVALID_STATE
            /\ mq'.did = <<>> /\ mq'.cli = mq.cli /\ mqm' = mqm]_vars
C16_Witness ==
    /\ mq.op = "mqm_start" /\ mq.pc = "idle" /\ mq.ret = ESP_FAIL
    /\ mq.arg = <<0>> /\ mq.el = MQM_START_DEFAULT_MS

\* C17: mqm_start does not return ESP_OK, and the connected flag is not
\* true, while the handler of MQTT_EVENT_CONNECTED has not finished
\* mqm_subscribe_all and the publish_when_client_connected callback
C17_SequenceBeforeSuccess ==
    [][/\ StartReturns /\ mq'.ret = ESP_OK => mq.h = "idle"
       /\ mqm'.connected => mq'.h = "idle"]_vars

\* C18: mqm_stop on a started context returns ESP_OK only after the handler
\* raised FAIL after the stop was issued, and ESP_FAIL when its wait of
\* timeout_ms (3000 when zero) expires; on a context that is not started it
\* returns ESP_OK and does nothing
StopCalled == mq'.op = "mqm_stop" /\ mq'.left = mq.left - 1
StopReturns == mq.op = "mqm_stop" /\ mq.pc = "stop_wait" /\ mq'.pc = "idle"
C18_StopResult ==
    [][/\ StopReturns =>
            IF mq'.ret = ESP_OK THEN MQM_BIT_FAIL \in mq.raised
            ELSE /\ mq'.ret = ESP_FAIL
                 /\ mq'.el = IF mq.arg[1] = 0 THEN MQM_STOP_DEFAULT_MS ELSE mq.arg[1]
       /\ StopCalled /\ ~mqm.started =>
            /\ mq'.ret = ESP_OK /\ mq'.did = <<>> /\ mq'.pc = "idle"
            /\ mqm' = mqm /\ mq'.cli = mq.cli /\ mq'.bits = mq.bits]_vars

\* C19: the handler of MQTT_EVENT_CONNECTED sets the connected flag, then
\* subscribes to the topic of every entry of the table in order, whatever
\* the result of each subscription, then calls the
\* publish_when_client_connected callback once
\* the handler returns (a reboot ends it as well, and is another step)
ConnectedHandled == mq.h = "pub" /\ mq'.h = "idle" /\ mq'.left = mq.left
TableTopics == SelectSeq([k \in 1..Len(mqm.table) |-> mqm.table[k].topic],
                         LAMBDA t : t # NullPtr)
C19_ConnectSequence ==
    [][/\ mq'.ev.id = "CONNECTED" /\ mq'.evs = mq.evs - 1 =>
            mqm'.connected /\ mq'.seen[1] = Do("connected", "true")
       /\ ConnectedHandled =>
            LET s == mq'.seen
                subs == SelectSeq(s, LAMBDA x : x.op = "esp_mqtt_client_subscribe")
                cbs == SelectSeq(s, LAMBDA x : x.op = "publish_when_client_connected")
                after == {k \in 1..Len(s) : s[k].op = "esp_mqtt_client_subscribe"}
            IN /\ s[1] = Do("connected", "true")
               /\ Len(subs) = Len(TableTopics)
               /\ \A k \in 1..Len(subs) :
                     subs[k].arg \in {TableTopics[k] \o ":ok", TableTopics[k] \o ":failed"}
               /\ Len(cbs) = IF mqm.cbs.publish_when_client_connected THEN 1 ELSE 0
               /\ mqm.cbs.publish_when_client_connected =>
                     /\ s[Len(s)].op = "publish_when_client_connected"
                     /\ \A k \in after : k < Len(s)]_vars
C19_Witness ==
    /\ mq.ev.id = "CONNECTED" /\ mq.h = "idle"
    /\ Len(mq.seen) = 6
    /\ mq.seen[4] = Do("esp_mqtt_client_subscribe", "A:failed")
    /\ mq.seen[5] = Do("esp_mqtt_client_subscribe", "B:ok")
    /\ mq.seen[6] = Do("publish_when_client_connected", "")

\* C20: mqm_deinit and wfm_deinit on a zeroed context do nothing with an
\* absent handle, return, and leave the context zeroed
DeinitCalled(f) == mq'.op = f /\ mq'.left = mq.left - 1 /\ mq'.arg = <<>>
NoNullHandle(d) == \A k \in 1..Len(d) : d[k].arg # NullPtr
C20_DeinitOfZeroed ==
    [][/\ DeinitCalled("mqm_deinit") /\ mqm = MqmZero =>
            NoNullHandle(mq'.did) /\ mq'.ret = "void" /\ mqm' = MqmZero
       /\ DeinitCalled("wfm_deinit") /\ wfm = WfmZero =>
            NoNullHandle(mq'.did) /\ mq'.ret = "void" /\ wfm' = WfmZero]_vars


\* C21: a boot that finds the credential store empty makes no station
\* connection attempt; it reaches the main loop either in access-point mode,
\* with the configured setup name and secret and the provisioning web server
\* started, or on the failure path, and it is on the failure path whenever
\* wfm_start_ap or start_webserver failed
EmptyBoot == nvs = <<>> /\ hist.route \in {"none", "ap", "failure"}
NoStationAttempt ==
    /\ drv.link = "idle" /\ drv.ssid = NoStr
    /\ hist.fcAtt = <<>>
    /\ pc[MainTask] \notin {"fc_entry", "m_fc_ret"}
    /\ \A k \in DOMAIN stack[MainTask] : stack[MainTask][k] # "m_fc_ret"
InSetupMode ==
    /\ wfm.mode = WFM_MODE_AP
    /\ drv.st = "started" /\ drv.mode = "AP"
    /\ drv.ap = Cred(WIFI_AP_SSID, WIFI_AP_PASSWORD)
    /\ app.webserver
C21_EmptyStoreBoot ==
    /\ [](EmptyBoot => NoStationAttempt)
    /\ []((nvs = <<>> /\ hist.route = "ap") => InSetupMode /\ app.init_success)
    /\ [][(pc[MainTask] = "m_ap_ret" /\ pc'[MainTask] = "m_loop") =>
            IF loc[MainTask].ret = ESP_OK /\ app'.webserver
            THEN hist'.route = "ap"
            ELSE hist'.route = "failure" /\ ~app'.init_success]_vars
    /\ (pc[MainTask] = "boot" /\ nvs = <<>>) ~> (hist.route \in {"ap", "failure"})

\* the empty-store boot has reached the main loop in setup mode
C21_Witness ==
    /\ nvs = <<>> /\ hist.route = "ap" /\ pc[MainTask] = "m_loop"
    /\ InSetupMode

\* C22: after wfm_first_connect has failed at boot with credentials stored,
\* and until the main loop handles a button flag, the device is not in
\* access-point mode, the MQTT manager is not started and the station is not
\* connected
FirstConnectFailed == hist.route = "sta_fail"
C22_NoFallback ==
    FirstConnectFailed =>
        /\ wfm.mode # WFM_MODE_AP /\ drv.mode # "AP" /\ ~app.webserver
        /\ ~app.mqm_started /\ ~app.mqm_connected
        /\ ~wfm.connected /\ drv.link # "connected"

\* the main loop runs after a failed wfm_first_connect, a button press pending
C22_Witness ==
    /\ FirstConnectFailed /\ pc[MainTask] = "m_loop"
    /\ nvs # <<>> /\ app.wifi_triple_pressed

\* C23: on the failure path of app_main a long-press flag that is raised
\* leads to the erase and the restart, and a triple-press flag that is raised
\* leads to the switch to access-point setup mode
OnFailurePath == hist.route = "failure" /\ pc[MainTask] = "m_loop"
C23_ButtonsAfterFailure ==
    /\ (OnFailurePath /\ app.wifi_reset_pressed) ~> (hist.route = "reset")
    /\ (OnFailurePath /\ app.wifi_triple_pressed) ~> (hist.route = "triple")

\* C24: when the main loop consumes the long-press flag the credential store
\* is erased before the restart; the restart follows whatever the state of
\* the device; the boot after it finds the store empty and reaches setup
\* mode (or the failure path when the access point cannot be started)
ResetConsumed == app.wifi_reset_pressed /\ ~app'.wifi_reset_pressed /\ pc[MainTask] = "m_loop"
C24_LongPress ==
    /\ [][ResetConsumed => nvs' = <<>> /\ pc'[MainTask] = "m_restart"]_vars
    /\ [](pc[MainTask] = "m_restart" => nvs = <<>>)
    /\ [][(pc[MainTask] = "m_restart" /\ pc'[MainTask] # "m_restart") =>
             pc'[MainTask] = "boot" /\ nvs' = <<>>]_vars
    /\ (pc[MainTask] = "m_restart") ~>
          (nvs = <<>> /\ pc[MainTask] = "m_loop" /\
             ((hist.route = "ap" /\ InSetupMode) \/ hist.route = "failure"))

\* a store that held credentials is erased and the restart is pending
C24_Witness ==
    /\ pc[MainTask] = "m_restart"
    /\ hist.nvs0 # <<>> /\ nvs = <<>>

\* C25: when the main loop consumes the triple-press flag, wfm_start_ap is
\* entered only after wfm_full_driver_stop has returned with the driver
\* stopped; once the switch is done the device is in access-point mode and
\* stays there; the credential store is as it was when the flag was consumed
TripleBegun == hist.route \in {"triple", "triple_done", "triple_noap"}
C25_TriplePress ==
    /\ [][(hist.route = "triple" /\ pc[MainTask] # "ap_entry" /\ pc'[MainTask] = "ap_entry") =>
             pc[MainTask] = "m_fs_ret" /\ drv.st = "deinit" /\ ~wfm.started]_vars
    /\ [](hist.route = "triple_done" =>
             wfm.mode = WFM_MODE_AP /\ drv.mode = "AP" /\ drv.st = "started")
    /\ [](TripleBegun => nvs = hist.nvs0)

\* C26: a change-network command changes the credential store by an add only
\* when wfm_change_network returned ESP_OK and MQTT_EVENT_CONNECTED was
\* handled after the command began
CmdEnds(t) == pc[t] \in {"cn_ret", "cn_poll_ok", "cn_poll_fail"} /\ pc'[t] = "off" /\ ~Reboots
C26_PersistOnConfirmed ==
    [][\A t \in CnTasks :
         (CmdEnds(t) /\ pc[t] = "cn_poll_ok" /\ nvs' # nvs) =>
             loc[t].ret = ESP_OK /\ hist.mqFresh]_vars

\* C27: when a change-network command ends after wfm_change_network failed
\* and the attempt on the new network was refused with a reason classified
\* as wrong password, the name of the command is not in the credential store
\* and the status "wrong password" was published, whether the station is
\* connected again or not
Stored(list, n) == \E k \in 1..Len(list) : list[k].ssid = n
RejectedSecret(t) == loc[t].ret # ESP_OK /\ hist.newDisc = WFM_DISC_WRONG_PASSWORD
C27_WrongSecret ==
    [][\A t \in CnTasks :
         (CmdEnds(t) /\ RejectedSecret(t)) =>
             ~Stored(nvs', loc[t].new.ssid) /\ hist'.pub = "wrong password"]_vars

\* C28: when a change-network command ends after the attempt on the new
\* network failed with a reason that is not wrong password, the credential
\* store is what it was when the command began
OtherFailure(t) ==
    loc[t].ret # ESP_OK /\ hist.newDisc \in {WFM_DISC_NO_AP, WFM_DISC_OTHER}
C28_StoreUntouched ==
    [][\A t \in CnTasks : (CmdEnds(t) /\ OtherFailure(t)) => nvs' = hist.nvs0]_vars

\* C29: an add with an empty name changes nothing; an add whose name equals a
\* stored name replaces only that entry's secret; otherwise the pair is
\* appended at the end while fewer than 15 entries are held, and dropped
\* when 15 are held; the count never exceeds 15
UpsertCalled == store'.left = store.left - 1 /\ store'.op = "add"
Hits(n) == {k \in 1..Len(nvs) : nvs[k].ssid = n}
C30_NamesUnique ==
    \A j, k \in 1..Len(nvs) :
       /\ nvs[k].ssid # NoStr
       /\ j # k => nvs[j].ssid # nvs[k].ssid


\* C35: a remove of a stored name leaves the other entries, in the order
\* they had; a remove of a name that is not stored leaves the list as it was
RemoveCalled == store'.left = store.left - 1 /\ store'.op = "remove"
C35_RemoveKeepsOrder ==
    [][RemoveCalled =>
         LET n == store'.ssid
             Other(c) == c.ssid # n
         IN nvs' = SelectSeq(nvs, Other)]_vars


\* C33: the handler of STA_DISCONNECTED records wrong password exactly for
\* AUTH_FAIL, AUTH_EXPIRE, 4WAY_HANDSHAKE_TIMEOUT and ASSOC_EXPIRE, network
\* not found exactly for NO_AP_FOUND, and other for every other reason and for
\* an event without data; it clears connected and the CONNECTED bit and
\* raises the FAIL bit
DiscHandled ==
    /\ evt = "idle" /\ evq # <<>> /\ Head(evq).id = "STA_DISCONNECTED"
    /\ evq' = Tail(evq) /\ ~Reboots
FailRaised ==
    \/ WFM_BIT_FAIL \in eg'
    \/ \E t \in Tasks : wmask[t] # {} /\ wmask'[t] = {} /\ WFM_BIT_FAIL \in bits'[t]
C33_Classification ==
    [][DiscHandled =>
         LET r == Head(evq).reason
         IN /\ wfm'.last_disc = WFM_DISC_WRONG_PASSWORD <=>
                  r \in {"AUTH_FAIL", "AUTH_EXPIRE", "4WAY_HANDSHAKE_TIMEOUT", "ASSOC_EXPIRE"}
            /\ wfm'.last_disc = WFM_DISC_NO_AP <=> r = "NO_AP_FOUND"
            /\ wfm'.last_disc \in {WFM_DISC_WRONG_PASSWORD, WFM_DISC_NO_AP, WFM_DISC_OTHER}
            /\ ~wfm'.connected
            /\ WFM_BIT_CONNECTED \notin eg'
            /\ FailRaised]_vars

\* an event without data was handled while the station was connected and an
\* association expiry is being handled next
C33_Witness ==
    /\ evt = "disc_status" /\ wfm.last_disc = WFM_DISC_OTHER /\ ~wfm.connected
    /\ hist.discBy = "drop"
    /\ evq # <<>> /\ Head(evq).reason = "ASSOC_EXPIRE"


\* C39: the handler of STA_DISCONNECTED never decides to create a reconnect
\* task while a reconnect task exists, so at most one exists at any time
SpawnDecided == evt = "disc_status" /\ evt' # "disc_status" /\ ~Reboots /\ SpawnReconnect(wfm)
RcAlive == {t \in RcTasks : pc[t] # "off"}
C39_OneReconnectTask ==
    [][/\ SpawnDecided => RcAlive = {}
       /\ Cardinality({t \in RcTasks : pc'[t] # "off"}) <= 1]_vars


\* C40: when wfm_change_network or wfm_reconnect returns, auto_reconnect is
\* true, whatever the return path
RcnLabels == {"rcn_entry", "rcn_round", "rcn_scanned", "rcn_scanfail", "rcn_wait", "rcn_failed"}
Returns(t) ==
    /\ pc[t] \in RcnLabels \cup CnwLabels
    /\ Len(stack'[t]) < Len(stack[t])
    /\ ~Reboots
C40_ReenabledOnReturn ==
    [][\A t \in Tasks : Returns(t) => wfm'.auto_reconnect]_vars


\* C32: at most one task at a time is inside wfm_scan_sync, wfm_reconnect,
\* wfm_change_network, wfm_full_driver_stop or wfm_start_ap
OpLabels ==
    {"ss_entry", "ss_wait_started", "ss_scanning", "fs_entry", "fs_wait", "fs_shown",
     "ap_entry", "ap_wait", "ap_shown"} \cup RcnLabels \cup CnwLabels
C32_OneTaskInManager == Cardinality({t \in Tasks : pc[t] \in OpLabels}) <= 1


\* C34: the task of the MQTT client is never, inside a topic handler, in a
\* wait for a signal of the Wi-Fi manager, in a scan or in a download
C34_HandlersDoNotBlock ==
    pc[MqttTask] \notin WaitLabels \cup {"ss_scanning", "ota_download"}

\* C37: no topic handler is called before init_web_app has completed
HandlerCalled == env'.cmds = env.cmds - 1
C37_HandlersAfterInit == [][HandlerCalled => app.app_initialized]_vars


\* C38: when the event the handler of the MQTT manager processed last is
\* MQTT_EVENT_DISCONNECTED, mqm.connected is false
C38_ConnectedTracksSession == mq.ev.id = "DISCONNECTED" => ~mqm.connected


\* C31: after the MQTT manager has reported connected, disconnecting,
\* disconnected or error, the display shows that report and the LEDs follow:
\* yellow on when connected, off when disconnected, red on for an error
C31_StatusMirrored ==
    mq.ui.last \in {"MQM_CONNECTED", "MQM_DISCONNECTING", "MQM_DISCONNECTED", "MQM_ERROR"} =>
        /\ mq.ui.lcd = mq.ui.last
        /\ mq.ui.last = "MQM_CONNECTED" => mq.ui.yellow = "on"
        /\ mq.ui.last = "MQM_DISCONNECTED" => mq.ui.yellow = "off"
        /\ mq.ui.last = "MQM_ERROR" => mq.ui.red = "on"

\* a press held for at least 5 s
IsLong(r) == r.held * 1000 >= LongPressMs

\* the short presses in a row at the end of rel, each released within 3 s of
\* the release before it, the one that would complete the pattern included
RECURSIVE RunAt(_)
RunAt(rel) ==
    IF rel = <<>> THEN 0
    ELSE LET r == rel[Len(rel)]
             prev == SubSeq(rel, 1, Len(rel) - 1)
             p == IF RunAt(prev) >= 3 THEN 0 ELSE RunAt(prev)
         IN  IF IsLong(r) THEN 0
             ELSE IF p > 0 /\ UsOf(r.at - prev[Len(prev)].at) <= TripleGapUs THEN p + 1
             ELSE 1

\* the patterns in the presses seen since boot
LongPatterns(rel) == Cardinality({k \in 1..Len(rel) : IsLong(rel[k])})
TriplePatterns(rel) == Cardinality({k \in 1..Len(rel) : RunAt(SubSeq(rel, 1, k)) >= 3})

IsrRan == env'.edges = env.edges - 1
LoopTook(label) == pc[MainTask] = "m_loop" /\ pc'[MainTask] = label /\ app.init_success

====
